---- MODULE Spec2Model ----
(***************************************************************************)
(* Model of the unfold-and-pack geometry engine of paper_model_tool:       *)
(*   - Mesh.generate_cuts (mesh.py) with join_island (edge.py): the greedy *)
(*     pass that glues flattened faces into islands, and the boundary list *)
(*     built afterwards;                                                   *)
(*   - Mesh.fit_islands (mesh.py): stop-list packing of islands on pages.  *)
(* Lengths and coordinates are integers (multiples of one grid unit); the  *)
(* meshes have planar faces with axis-aligned normals, so that flattening  *)
(* and fitting stay exact. The unfolding runs with limit_by_page off (the  *)
(* default, page_size None) or with a square page.                         *)
(***************************************************************************)
EXTENDS Integers, Sequences, FiniteSets, TLC

(***************************************************************************)
(* Generic helpers                                                         *)
(***************************************************************************)
Range(s) == {s[i] : i \in 1..Len(s)}

\* s with x inserted after every element whose key is not larger
\* (equal keys keep their order).
RECURSIVE InsertSorted(_, _, _)
InsertSorted(x, s, key) ==
    IF s = <<>> THEN <<x>>
    ELSE IF key[x] < key[Head(s)] THEN <<x>> \o s
    ELSE <<Head(s)>> \o InsertSorted(x, Tail(s), key)

\* Python's sorted(s, key=...): a stable ascending sort; key is a function on
\* the elements of s. sorted(reverse=True) is the stable sort by the negated key.
RECURSIVE SortedBy(_, _)
SortedBy(s, key) ==
    IF s = <<>> THEN <<>>
    ELSE InsertSorted(s[Len(s)], SortedBy(SubSeq(s, 1, Len(s) - 1), key), key)

\* sorted() of a list of integers
SortedInts(s) == SortedBy(s, [x \in Range(s) |-> x])

(***************************************************************************)
(* Packing: bounds of the inputs                                           *)
(***************************************************************************)
MaxUnits == 13
MaxExtras == 4
\* the inputs on which the page count is compared with the optimum
MaxOptUnits == 1
MaxOptExtras == 4

UnitBox == <<1, 1>>
ExtraBoxes == {<<1, 2>>, <<2, 1>>, <<2, 2>>, <<1, 4>>}
CageSizes == {<<3, 3>>, <<3, 5>>, <<2, 4>>}
OptBoxes == {<<1, 2>>, <<2, 1>>, <<2, 2>>}
OptCageSizes == {<<3, 3>>, <<3, 1>>}

RECURSIVE SeqsUpTo(_, _)
SeqsUpTo(S, n) ==
    IF n = 0 THEN {<<>>}
    ELSE LET shorter == SeqsUpTo(S, n - 1)
         IN shorter \cup {Append(s, x) : s \in {t \in shorter : Len(t) = n - 1}, x \in S}

(***************************************************************************)
(* Packing state (Mesh.fit_islands)                                        *)
(***************************************************************************)
VARIABLES
    cage_size,          \* <<x, y>>: the page size
    islands,            \* self.islands: sequence of bounding boxes <<x, y>>
    pos,                \* island.pos of every island of self.islands
    pages,              \* self.pages: each page the list page.islands
    remaining_islands,  \* indices into islands, sorted by diagonal
    cursor,             \* position of "for island in remaining_islands"
    page_islands,       \* page.islands of the page being filled
    stops_x,
    stops_y,
    occupied_cache,
    pc                  \* "start", "loop", "page", "done", "error"

packVars == <<cage_size, islands, pos, pages, remaining_islands, cursor,
              page_islands, stops_x, stops_y, occupied_cache, pc>>

(***************************************************************************)
(* Cutting state (Mesh, Edge, Island, UVFace, UVEdge, UVVertex objects).   *)
(* Faces, edges and loops are numbered as in the mesh data; a UVEdge is    *)
(* named by its loop, a UVFace by its face, an Island by the face it was   *)
(* created from and a UVVertex by the loop it was created for. 0 stands    *)
(* for None.                                                               *)
(***************************************************************************)
VARIABLES
    mesh,               \* which of the Meshes is unfolded
    force_cut,          \* Edge.force_cut: the edges whose bmesh edge has seam set
    priority_effect,    \* <<CONVEX, CONCAVE, LENGTH>>, in twentieths
    page_size,          \* the size limit of the islands: <<x, y>>, or <<>> (None)
    edge_order,         \* iteration order of the dict self.edges
    island_order,       \* iteration order of the set of islands
    main_faces,         \* Edge.main_faces: <<loop, loop>> or <<>> (None)
    angle,              \* Edge.angle in quarter turns (pi/2)
    priority,           \* Edge.priority, scaled (see generate_priority)
    is_main_cut,        \* Edge.is_main_cut
    uvedges,            \* Edge.uvedges
    island_set,         \* the local set "islands" of generate_cuts
    edges,              \* the local sorted list "edges" of generate_cuts
    edge_i,             \* position of "for edge in edges"
    old_island,         \* what the last join_island returned
    mesh_islands,       \* self.islands after generate_cuts
    faces,              \* Island.faces (keys, in dict order)
    boundary,           \* Island.boundary
    has_safe_geometry,  \* Island.has_safe_geometry
    is_inside_out,      \* Island.is_inside_out
    vertices,           \* Island.vertices of the island owning the loop
    uvface_island,      \* UVFace.island
    flipped,            \* UVFace.flipped
    uvface_vertices,    \* UVFace.vertices, by loop
    uvedge_va,          \* UVEdge.va
    uvedge_vb,          \* UVEdge.vb
    uvedge_min,         \* UVEdge.min
    uvedge_max,         \* UVEdge.max
    uvedge_bottom,      \* UVEdge.bottom
    uvedge_top,         \* UVEdge.top
    neighbor_left,      \* UVEdge.neighbor_left
    neighbor_right,     \* UVEdge.neighbor_right
    co,                 \* UVVertex.co (and .tup)
    join_calls,         \* the edges join_island has been called for, in order
    cpc,                \* "idle", "start", "join", "done", or the exception raised
    coalescing,         \* a run of the coalescing loop of join_island on its own
    sweeping,           \* a run of sweep on its own
    exporting           \* a run of the unfolder as far as its fatal errors go

inputVars == <<mesh, force_cut, priority_effect, page_size, edge_order, island_order>>
edgeVars == <<main_faces, angle, priority, is_main_cut, uvedges>>
loopVars == <<island_set, edges, edge_i, old_island, mesh_islands, join_calls, cpc>>
islandVars == <<faces, boundary, has_safe_geometry, is_inside_out, vertices>>
uvfaceVars == <<uvface_island, flipped, uvface_vertices>>
uvedgeVars == <<uvedge_va, uvedge_vb, uvedge_min, uvedge_max, uvedge_bottom, uvedge_top>>
linkVars == <<neighbor_left, neighbor_right>>
cutVars == <<inputVars, edgeVars, loopVars, islandVars, uvfaceVars, uvedgeVars, linkVars, co>>

vars == <<packVars, cutVars, coalescing, sweeping, exporting>>

\* no mesh is being unfolded
CutIdle ==
    /\ mesh = 0 /\ force_cut = {} /\ priority_effect = <<0, 0, 0>> /\ page_size = <<>>
    /\ edge_order = <<>> /\ island_order = <<>>
    /\ main_faces = <<>> /\ angle = <<>> /\ priority = <<>> /\ is_main_cut = <<>>
    /\ uvedges = <<>>
    /\ island_set = {} /\ edges = <<>> /\ edge_i = 0 /\ old_island = 0
    /\ mesh_islands = <<>> /\ join_calls = <<>> /\ cpc = "idle"
    /\ faces = <<>> /\ boundary = <<>> /\ has_safe_geometry = <<>>
    /\ is_inside_out = <<>> /\ vertices = <<>>
    /\ uvface_island = <<>> /\ flipped = <<>> /\ uvface_vertices = <<>>
    /\ uvedge_va = <<>> /\ uvedge_vb = <<>> /\ uvedge_min = <<>> /\ uvedge_max = <<>>
    /\ uvedge_bottom = <<>> /\ uvedge_top = <<>>
    /\ neighbor_left = <<>> /\ neighbor_right = <<>> /\ co = <<>>

\* the coalescing loop is not run on its own
CoalescingIdle == coalescing = [pc |-> "idle"]

\* sweep is not run on its own
SweepingIdle == sweeping = [pc |-> "idle"]

ExportingIdle == exporting = [pc |-> "idle"]

length_squared(bb) == bb[1] * bb[1] + bb[2] * bb[2]

TooBigBothOnly(bb) == bb[1] > cage_size[1] /\ bb[2] > cage_size[2]

\* mesh.py:328  the size pre-check of one island
TooBig(bb) == bb[1] > cage_size[1] \/ bb[2] > cage_size[2]

ExceedsPageOffByOne(stop, size, border) == stop + size >= border

\* mesh.py:294, 297  "x + bbox_x > cage_size.x"
ExceedsPage(stop, size, border) == stop + size > border

OverlapsCornerOnly(x, y, bb, obstacle) ==
    /\ x >= pos[obstacle][1]
    /\ pos[obstacle][1] + islands[obstacle][1] > x
    /\ y >= pos[obstacle][2]
    /\ pos[obstacle][2] + islands[obstacle][2] > y

\* mesh.py:301-304  the AABB test of try_emplace
Overlaps(x, y, bb, obstacle) ==
    /\ x + bb[1] > pos[obstacle][1]
    /\ pos[obstacle][1] + islands[obstacle][1] > x
    /\ y + bb[2] > pos[obstacle][2]
    /\ pos[obstacle][2] + islands[obstacle][2] > y

\* mesh.py:299-304  index of the first obstacle of the page list that overlaps,
\* 0 when none
FirstObstacle(x, y, bb, plist) ==
    LET hits == {i \in 1..Len(plist) : Overlaps(x, y, bb, plist[i])}
    IN IF hits = {} THEN 0 ELSE CHOOSE i \in hits : \A j \in hits : i <= j

MoveToFrontNoHead(plist, i) ==
    IF i > 1
    THEN <<plist[1]>> \o SubSeq(plist, 1, i - 1) \o SubSeq(plist, i + 1, Len(plist))
    ELSE plist

\* mesh.py:308-310  page_islands[1:i+1] = page_islands[:i]; page_islands[0] = obstacle
MoveToFront(plist, i) ==
    IF i > 1
    THEN <<plist[i]>> \o SubSeq(plist, 1, i - 1) \o SubSeq(plist, i + 1, Len(plist))
    ELSE plist

CacheAfterEveryHit(cache, x, y, obstacle) == cache \cup {<<x, y>>}

\* mesh.py:305-306
CacheAfterHit(cache, x, y, obstacle) ==
    IF x >= pos[obstacle][1] /\ y >= pos[obstacle][2]
    THEN cache \cup {<<x, y>>}
    ELSE cache

\* mesh.py:297-319  the inner loop of try_emplace: the stops of stops_y from
\* yi on, at one x.  The result carries the page list and the cache as the
\* scan left them.
RECURSIVE try_stops_y(_, _, _, _, _, _)
try_stops_y(island, plist, x, sy, cache, yi) ==
    LET bb == islands[island] IN
    IF yi > Len(sy)
    THEN [ok |-> FALSE, at |-> <<0, 0>>, plist |-> plist, cache |-> cache]
    ELSE IF ExceedsPage(sy[yi], bb[2], cage_size[2]) \/ <<x, sy[yi]>> \in cache
    THEN try_stops_y(island, plist, x, sy, cache, yi + 1)
    ELSE LET y == sy[yi]
             i == FirstObstacle(x, y, bb, plist)
         IN IF i = 0
            THEN [ok |-> TRUE, at |-> <<x, y>>, plist |-> Append(plist, island),
                  cache |-> cache]
            ELSE try_stops_y(island, MoveToFront(plist, i), x, sy,
                             CacheAfterHit(cache, x, y, plist[i]), yi + 1)

RECURSIVE try_emplace(_, _, _, _, _, _)

\* mesh.py:293, 318-319  "return True" out of the inner loop, else the next x
\* with the page list and the cache the inner loop left
try_next_x(island, sx, sy, xi, r) ==
    IF r.ok THEN r ELSE try_emplace(island, r.plist, sx, sy, r.cache, xi + 1)

\* mesh.py:288-319  try_emplace: scan of the stops of stops_x from xi on
try_emplace(island, plist, sx, sy, cache, xi) ==
    IF xi > Len(sx)
    THEN [ok |-> FALSE, at |-> <<0, 0>>, plist |-> plist, cache |-> cache]
    ELSE IF ExceedsPage(sx[xi], islands[island][1], cage_size[1])
    THEN try_emplace(island, plist, sx, sy, cache, xi + 1)
    ELSE try_next_x(island, sx, sy, xi,
                    try_stops_y(island, plist, sx[xi], sy, cache, 1))

drop_portion_above(stops, border, divisor) ==
    LET sorted == SortedInts(stops)
        n == Len(sorted)
        shifted == SubSeq(sorted, 3, n) \o <<border>>
        nd == IF n < Len(shifted) THEN n ELSE Len(shifted)
        distances == [k \in 1..nd |-> shifted[k] - sorted[k]]
        quantile == SortedInts(distances)[(Len(distances) \div divisor) + 1]
        paired == <<quantile>> \o distances
        np == IF n < Len(paired) THEN n ELSE Len(paired)
    IN SelectSeq([k \in 1..np |-> <<sorted[k], paired[k]>>],
                 LAMBDA p : p[2] > quantile)

\* mesh.py:321-326  drop_portion
drop_portion(stops, border, divisor) ==
    LET sorted == SortedInts(stops)
        n == Len(sorted)
        shifted == SubSeq(sorted, 3, n) \o <<border>>
        nd == IF n < Len(shifted) THEN n ELSE Len(shifted)
        distances == [k \in 1..nd |-> shifted[k] - sorted[k]]
        quantile == SortedInts(distances)[(Len(distances) \div divisor) + 1]
        paired == <<quantile>> \o distances
        np == IF n < Len(paired) THEN n ELSE Len(paired)
    IN SelectSeq([k \in 1..np |-> <<sorted[k], paired[k]>>],
                 LAMBDA p : p[2] >= quantile)

StopsOf(pairs) == [k \in 1..Len(pairs) |-> pairs[k][1]]

\* mesh.py:346  "if overwhelmed with stops"
Overwhelmed(sx) == Len(sx) * Len(sx) > 4 * Len(islands) + 100

\* mesh.py:334  key of sorted(..., reverse=True)
DiagonalKey == [i \in 1..Len(islands) |-> 0 - length_squared(islands[i])]

\* the islands handed to fit_islands: a few boxes of mixed sizes and unit
\* boxes, either many unit boxes or many mixed ones
PackInitOf(cages, boxes, maxExtras, maxUnits) ==
    /\ cage_size \in cages
    /\ \E extras \in SeqsUpTo(boxes, maxExtras), units \in 0..maxUnits :
           /\ Len(extras) <= 1 \/ units <= 1
           /\ islands = extras \o [k \in 1..units |-> UnitBox]
    /\ pos = [i \in 1..Len(islands) |-> <<0, 0>>]
    /\ pages = <<>>
    /\ remaining_islands = <<>>
    /\ cursor = 0
    /\ page_islands = <<>>
    /\ stops_x = <<>>
    /\ stops_y = <<>>
    /\ occupied_cache = {}
    /\ pc = "start"
    /\ CutIdle /\ CoalescingIdle /\ SweepingIdle /\ ExportingIdle

\* mesh.py:328-332  the pre-check raises PmtError
FitRaise ==
    /\ pc = "start"
    /\ \E i \in 1..Len(islands) : TooBig(islands[i])
    /\ pc' = "error"
    /\ UNCHANGED <<cutVars, coalescing, sweeping, exporting, cage_size, islands, pos, pages, remaining_islands, cursor,
                   page_islands, stops_x, stops_y, occupied_cache>>

\* mesh.py:334  sort by diagonal, largest first
FitSort ==
    /\ pc = "start"
    /\ ~ \E i \in 1..Len(islands) : TooBig(islands[i])
    /\ remaining_islands' = SortedBy([i \in 1..Len(islands) |-> i], DiagonalKey)
    /\ pc' = "loop"
    /\ UNCHANGED <<cutVars, coalescing, sweeping, exporting, cage_size, islands, pos, pages, cursor, page_islands,
                   stops_x, stops_y, occupied_cache>>

\* mesh.py:337-342  a new page
NewPage ==
    /\ pc = "loop"
    /\ remaining_islands # <<>>
    /\ page_islands' = <<>>
    /\ occupied_cache' = {}
    /\ stops_x' = <<0>>
    /\ stops_y' = <<0>>
    /\ cursor' = 1
    /\ pc' = "page"
    /\ UNCHANGED <<cutVars, coalescing, sweeping, exporting, cage_size, islands, pos, pages, remaining_islands>>

\* mesh.py:343-348  one iteration of "for island in remaining_islands"
Emplace ==
    /\ pc = "page"
    /\ cursor <= Len(remaining_islands)
    /\ LET island == remaining_islands[cursor]
           r == try_emplace(island, page_islands, stops_x, stops_y, occupied_cache, 1)
           sx == IF r.ok THEN Append(stops_x, r.at[1] + islands[island][1]) ELSE stops_x
           sy == IF r.ok THEN Append(stops_y, r.at[2] + islands[island][2]) ELSE stops_y
       IN /\ page_islands' = r.plist
          /\ occupied_cache' = r.cache
          /\ pos' = IF r.ok THEN [pos EXCEPT ![island] = r.at] ELSE pos
          /\ IF Overwhelmed(sx)
             THEN /\ stops_x' = StopsOf(drop_portion(sx, cage_size[1], 4))
                  /\ stops_y' = StopsOf(drop_portion(sy, cage_size[2], 4))
             ELSE /\ stops_x' = sx
                  /\ stops_y' = sy
    /\ cursor' = cursor + 1
    /\ UNCHANGED <<cutVars, coalescing, sweeping, exporting, cage_size, islands, pages, remaining_islands, pc>>

\* mesh.py:349-350  the page is closed
EndPage ==
    /\ pc = "page"
    /\ cursor > Len(remaining_islands)
    /\ remaining_islands' = SelectSeq(remaining_islands,
                                      LAMBDA i : i \notin Range(page_islands))
    /\ pages' = Append(pages, page_islands)
    /\ pc' = "loop"
    /\ UNCHANGED <<cutVars, coalescing, sweeping, exporting, cage_size, islands, pos, cursor, page_islands, stops_x,
                   stops_y, occupied_cache>>

\* mesh.py:337  "while remaining_islands" ends
FitDone ==
    /\ pc = "loop"
    /\ remaining_islands = <<>>
    /\ pc' = "done"
    /\ UNCHANGED <<cutVars, coalescing, sweeping, exporting, cage_size, islands, pos, pages, remaining_islands, cursor,
                   page_islands, stops_x, stops_y, occupied_cache>>

PackInit == PackInitOf(CageSizes, ExtraBoxes, MaxExtras, MaxUnits)

PackNext == FitRaise \/ FitSort \/ NewPage \/ Emplace \/ EndPage \/ FitDone

SpecPack == PackInit /\ [][PackNext]_vars

(***************************************************************************)
(* Packing: claims                                                         *)
(***************************************************************************)
PlacedLists == Range(pages) \cup {page_islands}

BoxesDisjoint(i, j) ==
    \/ pos[i][1] + islands[i][1] <= pos[j][1]
    \/ pos[j][1] + islands[j][1] <= pos[i][1]
    \/ pos[i][2] + islands[i][2] <= pos[j][2]
    \/ pos[j][2] + islands[j][2] <= pos[i][2]

InsideCage(i) ==
    /\ pos[i][1] >= 0
    /\ pos[i][2] >= 0
    /\ pos[i][1] + islands[i][1] <= cage_size[1]
    /\ pos[i][2] + islands[i][2] <= cage_size[2]

\* C1: on every page (closed or being filled) any two distinct placed islands
\* have disjoint boxes [pos, pos + bounding_box] and every placed island lies
\* inside [0, cage_size.x] x [0, cage_size.y].
C1_NoOverlapInsideCage ==
    \A pl \in PlacedLists :
        /\ \A k \in 1..Len(pl) : InsideCage(pl[k])
        /\ \A k, m \in 1..Len(pl) : k # m => BoxesDisjoint(pl[k], pl[m])

\* a finished run whose single page took 13 islands or more (the stop lists
\* were pruned when 12 were placed) and whose stops_y lost entries to pruning
C1_Witness ==
    /\ pc = "done"
    /\ Len(pages) = 1
    /\ Len(pages[1]) >= 13
    /\ Len(stops_y) < 1 + Len(pages[1])

\* the places <<page, index>> of island i in the page lists
Occurrences(i) ==
    Cardinality({pk \in (1..Len(pages)) \X (1..Len(islands)) :
                     pk[2] <= Len(pages[pk[1]]) /\ pages[pk[1]][pk[2]] = i})

\* C2: after fit_islands completes without error every island of
\* mesh.islands is in the island list of exactly one page, once.
C2_EveryIslandOnOnePage ==
    pc = "done" => \A i \in 1..Len(islands) : Occurrences(i) = 1

C2_Witness == pc = "done" /\ Len(pages) >= 2 /\ Len(islands) >= 13

C3_Progress ==
    pc \in {"loop", "page", "done"} =>
        /\ \A p \in 1..Len(pages) : pages[p] # <<>>
        /\ Len(pages) <= Len(islands)
        /\ (pc = "page" /\ cursor > 1) => page_islands # <<>>
        /\ pc # "page" => Len(pages) + Len(remaining_islands) <= Len(islands)

\* a measure of the work left: pages still to open, then islands still to try
C3_Rank ==
    LET K == Len(islands) + 3
    IN CASE pc = "start" -> (Len(islands) + 2) * K
         [] pc = "loop" -> Len(remaining_islands) * K + 1
         [] pc = "page" -> (Len(remaining_islands) - 1) * K + 3
                               + Len(remaining_islands) - cursor
         [] OTHER -> 0

\* C3: once the size pre-check has passed, fit_islands terminates: every step
\* of its loops lowers a non-negative measure; every page it creates receives an island (the first remaining
\* one), no empty page is appended and at most len(islands) pages are created.
C3_Terminates ==
    /\ [](C3_Progress /\ C3_Rank >= 0)
    /\ [][C3_Rank' < C3_Rank]_vars

C3_Witness == pc = "done" /\ Len(pages) = Len(islands) /\ Len(pages) >= 2

\* C5: if an island exceeds cage_size in x or in y, fit_islands raises before
\* doing anything else: no page, no remaining list, every pos untouched.
C5_TooBigRaisesFirst ==
    (\E i \in 1..Len(islands) :
         islands[i][1] > cage_size[1] \/ islands[i][2] > cage_size[2])
    => /\ pc \in {"start", "error"}
       /\ pages = <<>>
       /\ remaining_islands = <<>>
       /\ page_islands = <<>>
       /\ \A i \in 1..Len(islands) : pos[i] = <<0, 0>>

C5_Witness == pc = "error" /\ Len(islands) >= 2

\* the box of the island, put at <<x, y>>, lies within the page and shares
\* no area with an island of page_islands
C18_Feasible(x, y, island) ==
    /\ x + islands[island][1] <= cage_size[1]
    /\ y + islands[island][2] <= cage_size[2]
    /\ \A o \in Range(page_islands) :
           \/ x + islands[island][1] <= pos[o][1]
           \/ pos[o][1] + islands[o][1] <= x
           \/ y + islands[island][2] <= pos[o][2]
           \/ pos[o][2] + islands[o][2] <= y

\* the pairs of indices into stops_x and stops_y at which the island fits
C18_FeasiblePairs(island) ==
    {xy \in (1..Len(stops_x)) \X (1..Len(stops_y)) :
         C18_Feasible(stops_x[xy[1]], stops_y[xy[2]], island)}

\* xy comes before uv in the order of the two nested loops
C18_Before(xy, uv) == xy[1] < uv[1] \/ (xy[1] = uv[1] /\ xy[2] < uv[2])

C18_First(F) == CHOOSE xy \in F : \A uv \in F : uv = xy \/ C18_Before(xy, uv)

\* what a call of try_emplace for the island does with the feasible pairs F
C18_Call(island, F) ==
    /\ island \in Range(page_islands') <=> F # {}
    /\ F # {} => pos'[island] = <<stops_x[C18_First(F)[1]], stops_y[C18_First(F)[2]]>>
    /\ F = {} => pos'[island] = pos[island]
    /\ \A c \in occupied_cache \cup occupied_cache' : ~C18_Feasible(c[1], c[2], island)

\* C18: try_emplace is first-fit in list order: it places the island at the
\* first pair (x, y), x from stops_x and for each x y from stops_y, both in
\* list order, at which the box of the island fits in the page and overlaps
\* no island of the page; no pair of occupied_cache is such a pair, and it
\* returns False only when there is no such pair.
C18_FirstFit ==
    [][(pc = "page" /\ cursor <= Len(remaining_islands))
       => C18_Call(remaining_islands[cursor],
                   C18_FeasiblePairs(remaining_islands[cursor]))]_vars

\* try_emplace has just placed an island away from the first pair of stops,
\* with pairs in the cache, after it had returned False for the island
\* before it
C18_Witness ==
    /\ pc = "page"
    /\ cursor > 2
    /\ remaining_islands[cursor - 2] \notin Range(page_islands)
    /\ Len(page_islands) >= 3
    /\ page_islands[Len(page_islands)] = remaining_islands[cursor - 1]
    /\ pos[remaining_islands[cursor - 1]] # <<0, 0>>
    /\ occupied_cache # {}

\* the stop lists of an iteration after try_emplace, before the pruning
C19_stops_x(island) ==
    IF island \in Range(page_islands')
    THEN Append(stops_x, pos'[island][1] + islands[island][1])
    ELSE stops_x

C19_stops_y(island) ==
    IF island \in Range(page_islands')
    THEN Append(stops_y, pos'[island][2] + islands[island][2])
    ELSE stops_y

\* the gap from the stop at place k of the sorted list to the next larger
\* stop, the border standing for the stop after the largest
C19_Gap(sorted, border, k) ==
    LET larger == {j \in 1..Len(sorted) : sorted[j] > sorted[k]}
    IN (IF larger = {} THEN border
        ELSE sorted[CHOOSE j \in larger : \A i \in larger : j <= i]) - sorted[k]

\* the stops whose gap to the next larger stop is above the first-quartile gap
C19_AboveQuartileGap(stops, border) ==
    LET sorted == SortedInts(stops)
        gaps == [k \in 1..Len(sorted) |-> C19_Gap(sorted, border, k)]
        quartile == SortedInts(gaps)[(Len(gaps) \div 4) + 1]
    IN SelectSeq([k \in 1..Len(sorted) |-> <<sorted[k], gaps[k]>>], LAMBDA p : p[2] > quartile)

\* the span around the stop at place k >= 2 of the sorted list: from the stop
\* before it to the stop after it, the border standing for the stop after
\* the last
C19_Span(sorted, border, k) ==
    (IF k < Len(sorted) THEN sorted[k + 1] ELSE border) - sorted[k - 1]

\* the first stop of the sorted list, and every other stop whose span is at
\* least the first-quartile span
C19_AtLeastQuartileSpan(stops, border) ==
    LET sorted == SortedInts(stops)
        spans == [k \in 1..Len(sorted) - 1 |-> C19_Span(sorted, border, k + 1)]
        quartile == SortedInts(spans)[(Len(spans) \div 4) + 1]
    IN [k \in {j \in 1..Len(sorted) :
                   j = 1 \/ C19_Span(sorted, border, j) >= quartile} |-> sorted[k]]

\* the values of a function on a set of places, in the order of the places
RECURSIVE C19_InOrder(_, _)
C19_InOrder(f, n) ==
    IF n = 0 THEN <<>>
    ELSE C19_InOrder(f, n - 1) \o (IF n \in DOMAIN f THEN <<f[n]>> ELSE <<>>)

C19_PrunedAsClaimed(sx, sy) ==
    IF Len(sx) * Len(sx) > 4 * Len(islands) + 100
    THEN /\ stops_x' = StopsOf(C19_AboveQuartileGap(sx, cage_size[1]))
         /\ stops_y' = StopsOf(C19_AboveQuartileGap(sy, cage_size[2]))
    ELSE stops_x' = sx /\ stops_y' = sy

\* C19 as claimed: the pruning keeps exactly the stops whose gap to the
\* next-larger stop is above the first-quartile gap of the list, and it is
\* applied to both stop lists whenever len(stops_x)^2 exceeds
\* 4 * len(islands) + 100.
C19_KeepsAboveQuartileGap ==
    [][(pc = "page" /\ cursor <= Len(remaining_islands))
       => C19_PrunedAsClaimed(C19_stops_x(remaining_islands[cursor]),
                              C19_stops_y(remaining_islands[cursor]))]_vars

C19_Pruned(sx, sy) ==
    IF Len(sx) * Len(sx) > 4 * Len(islands) + 100
    THEN /\ stops_x' = C19_InOrder(C19_AtLeastQuartileSpan(sx, cage_size[1]), Len(sx))
         /\ stops_y' = C19_InOrder(C19_AtLeastQuartileSpan(sy, cage_size[2]), Len(sy))
    ELSE stops_x' = sx /\ stops_y' = sy

\* C19 as amended: the pruning sorts the list and keeps its first stop and
\* exactly those other stops for which the distance from the stop before to
\* the stop after (the border after the last stop) is at least the
\* first-quartile one of these distances; it is applied to both stop lists
\* after every try_emplace that leaves len(stops_x)^2 above
\* 4 * len(islands) + 100, and the lists are left alone otherwise.
C19_KeepsQuartileSpan ==
    [][(pc = "page" /\ cursor <= Len(remaining_islands))
       => C19_Pruned(C19_stops_x(remaining_islands[cursor]),
                     C19_stops_y(remaining_islands[cursor]))]_vars

\* both lists have been pruned on the page being filled: stops_y has lost
\* stops, though not all but the first, and stops_x has lost none
C19_Witness ==
    /\ pc = "page"
    /\ Len(stops_y) < 1 + Len(page_islands)
    /\ Len(stops_y) >= 2
    /\ Len(stops_x) = 1 + Len(page_islands)
    /\ Len(stops_x) * Len(stops_x) > 4 * Len(islands) + 100

(***************************************************************************)
(* fit_islands without the move-to-front of try_emplace (mesh.py:307-310),  *)
(* as a function of islands and cage_size                                  *)
(***************************************************************************)
\* Overlaps, FirstObstacle and CacheAfterHit with the obstacles at the
\* positions p of this run
C17_Overlaps(x, y, bb, obstacle, p) ==
    /\ x + bb[1] > p[obstacle][1]
    /\ p[obstacle][1] + islands[obstacle][1] > x
    /\ y + bb[2] > p[obstacle][2]
    /\ p[obstacle][2] + islands[obstacle][2] > y

C17_FirstObstacle(x, y, bb, plist, p) ==
    LET hits == {i \in 1..Len(plist) : C17_Overlaps(x, y, bb, plist[i], p)}
    IN IF hits = {} THEN 0 ELSE CHOOSE i \in hits : \A j \in hits : i <= j

C17_CacheAfterHit(cache, x, y, obstacle, p) ==
    IF x >= p[obstacle][1] /\ y >= p[obstacle][2]
    THEN cache \cup {<<x, y>>}
    ELSE cache

RECURSIVE C17_try_stops_y(_, _, _, _, _, _, _)
\* try_stops_y with the page list left in its order
C17_try_stops_y(island, plist, x, sy, cache, yi, p) ==
    LET bb == islands[island] IN
    IF yi > Len(sy)
    THEN [ok |-> FALSE, at |-> <<0, 0>>, plist |-> plist, cache |-> cache]
    ELSE IF ExceedsPage(sy[yi], bb[2], cage_size[2]) \/ <<x, sy[yi]>> \in cache
    THEN C17_try_stops_y(island, plist, x, sy, cache, yi + 1, p)
    ELSE LET y == sy[yi]
             i == C17_FirstObstacle(x, y, bb, plist, p)
         IN IF i = 0
            THEN [ok |-> TRUE, at |-> <<x, y>>, plist |-> Append(plist, island),
                  cache |-> cache]
            ELSE C17_try_stops_y(island, plist, x, sy,
                                 C17_CacheAfterHit(cache, x, y, plist[i], p), yi + 1, p)

RECURSIVE C17_try_emplace(_, _, _, _, _, _, _)

C17_try_next_x(island, sx, sy, xi, r, p) ==
    IF r.ok THEN r ELSE C17_try_emplace(island, r.plist, sx, sy, r.cache, xi + 1, p)

\* try_emplace without the move-to-front
C17_try_emplace(island, plist, sx, sy, cache, xi, p) ==
    IF xi > Len(sx)
    THEN [ok |-> FALSE, at |-> <<0, 0>>, plist |-> plist, cache |-> cache]
    ELSE IF ExceedsPage(sx[xi], islands[island][1], cage_size[1])
    THEN C17_try_emplace(island, plist, sx, sy, cache, xi + 1, p)
    ELSE C17_try_next_x(island, sx, sy, xi,
                        C17_try_stops_y(island, plist, sx[xi], sy, cache, 1, p), p)

\* the stop lists after an iteration (mesh.py:315-316, 346-348)
C17_stops(st, sx, sy) ==
    IF Overwhelmed(sx)
    THEN [st EXCEPT !.sx = StopsOf(drop_portion(sx, cage_size[1], 4)),
                    !.sy = StopsOf(drop_portion(sy, cage_size[2], 4))]
    ELSE [st EXCEPT !.sx = sx, !.sy = sy]

\* one iteration of "for island in remaining_islands", r being the result
\* of try_emplace
C17_emplaced(st, island, r) ==
    IF r.ok
    THEN C17_stops([st EXCEPT !.plist = r.plist, !.cache = r.cache, !.pos[island] = r.at],
                   Append(st.sx, r.at[1] + islands[island][1]),
                   Append(st.sy, r.at[2] + islands[island][2]))
    ELSE C17_stops([st EXCEPT !.plist = r.plist, !.cache = r.cache], st.sx, st.sy)

RECURSIVE C17_page(_, _, _)
\* "for island in remaining_islands" from position k on (mesh.py:343-348)
C17_page(st, remaining, k) ==
    IF k > Len(remaining) THEN st
    ELSE C17_page(C17_emplaced(st, remaining[k],
                               C17_try_emplace(remaining[k], st.plist, st.sx, st.sy, st.cache, 1,
                                               st.pos)),
                  remaining, k + 1)

RECURSIVE C17_fit(_, _, _)

\* the page is closed (mesh.py:349-350)
C17_closed(done, remaining, st) ==
    C17_fit(Append(done, st.plist), st.pos,
            SelectSeq(remaining, LAMBDA i : i \notin Range(st.plist)))

\* "while remaining_islands" (mesh.py:337-350)
C17_fit(done, p, remaining) ==
    IF remaining = <<>> THEN [pages |-> done, pos |-> p]
    ELSE C17_closed(done, remaining,
                    C17_page([plist |-> <<>>, sx |-> <<0>>, sy |-> <<0>>, cache |-> {}, pos |-> p],
                             remaining, 1))

\* pages and pos as fit_islands without the move-to-front leaves them
C17_Plain ==
    C17_fit(<<>>, [i \in 1..Len(islands) |-> <<0, 0>>],
            SortedBy([i \in 1..Len(islands) |-> i], DiagonalKey))

\* the output is the same: the pages, the list of islands of every page
\* in its order, and pos
C17_Same(plain) == pages = plain.pages /\ pos = plain.pos

\* C17 as claimed: fit_islands without the move-to-front of try_emplace
\* gives the same list of pages, the same ordered list of islands on each
\* page and the same pos for every island.
C17_SameOutput == pc = "done" => C17_Same(C17_Plain)

\* the same pages with the same islands on each, and the same pos
C17_SameButOrder(plain) ==
    /\ Len(pages) = Len(plain.pages)
    /\ \A k \in 1..Len(pages) :
           Len(pages[k]) = Len(plain.pages[k]) /\ Range(pages[k]) = Range(plain.pages[k])
    /\ pos = plain.pos

\* C17 as amended: fit_islands without the move-to-front gives the same
\* number of pages, the same set of islands on each page and the same pos
\* for every island; the order of the islands in page.islands may differ.
C17_SameLayout == pc = "done" => C17_SameButOrder(C17_Plain)

C17_Reordered(plain) ==
    /\ C17_SameButOrder(plain)
    /\ \E k \in 1..Len(pages) : Len(pages[k]) >= 3 /\ pages[k] # plain.pages[k]

\* fit_islands is over and the move-to-front has left the islands of a page
\* of three or more in another order than the order in which they were placed
C17_Witness == pc = "done" /\ C17_Reordered(C17_Plain)

SpecPackOpt ==
    PackInitOf(OptCageSizes, OptBoxes, MaxOptExtras, MaxOptUnits) /\ [][PackNext]_vars

\* every way to put the boxes todo (island indices) on pages 1..p next to the
\* boxes already put (records [pg, x, y, w, h]): is there one without overlap?
RECURSIVE CanPlaceAll(_, _, _)
CanPlaceAll(todo, put, p) ==
    \/ todo = <<>>
    \/ LET w == islands[Head(todo)][1]
           h == islands[Head(todo)][2]
           used == {q.pg : q \in put}
           top == IF Cardinality(used) < p THEN Cardinality(used) + 1 ELSE p
       IN \E pg \in 1..top, x \in 0..(cage_size[1] - w), y \in 0..(cage_size[2] - h) :
              /\ \A q \in put :
                     \/ q.pg # pg
                     \/ x + w <= q.x \/ q.x + q.w <= x
                     \/ y + h <= q.y \/ q.y + q.h <= y
              /\ CanPlaceAll(Tail(todo),
                             put \cup {[pg |-> pg, x |-> x, y |-> y, w |-> w, h |-> h]}, p)

\* the boxes of all islands fit on p pages without overlap
FitsOnPages(p) == CanPlaceAll(SortedBy([i \in 1..Len(islands) |-> i], DiagonalKey), {}, p)

\* C4 as claimed: the page count is the minimum, no packing uses fewer pages
C4_MinimumPages ==
    (pc = "done" /\ Len(pages) > 0) => ~FitsOnPages(Len(pages) - 1)

\* C4 as amended: never fewer pages than the minimum allows (the pages
\* produced are a packing) and never more than one page per island.
C4_PagesBetweenMinimumAndCount ==
    pc = "done" =>
        /\ Len(pages) <= Len(islands)
        /\ FitsOnPages(Len(pages))
        /\ \A p \in 1..Len(pages) :
               \A k, m \in 1..Len(pages[p]) :
                   k # m => BoxesDisjoint(pages[p][k], pages[p][m])

C4_Witness == pc = "done" /\ Len(pages) = 2 /\ FitsOnPages(1)

(***************************************************************************)
(* Input meshes (bmesh data): vertex coordinates, faces as loops of vertex *)
(* numbers, face normals, edges as vertex pairs <<va, vb>>.                *)
(***************************************************************************)
\* a unit cube, faces wound outwards
CubeMesh ==
    [ co |-> <<<<0, 0, 0>>, <<1, 0, 0>>, <<0, 1, 0>>, <<1, 1, 0>>, <<0, 0, 1>>, <<1, 0, 1>>, <<0, 1, 1>>,
                <<1, 1, 1>>>>,
      faces |-> <<<<1, 3, 4, 2>>, <<5, 6, 8, 7>>, <<1, 2, 6, 5>>, <<3, 7, 8, 4>>, <<1, 5, 7, 3>>,
                   <<2, 4, 8, 6>>>>,
      normals |-> <<<<0, 0, -1>>, <<0, 0, 1>>, <<0, -1, 0>>, <<0, 1, 0>>, <<-1, 0, 0>>, <<1, 0, 0>>>>,
      edges |-> <<<<1, 3>>, <<3, 4>>, <<4, 2>>, <<2, 1>>, <<5, 6>>, <<6, 8>>, <<8, 7>>, <<7, 5>>, <<2, 6>>,
                   <<5, 1>>, <<3, 7>>, <<8, 4>>>> ]

\* a flat 3x3 grid of unit squares without the centre square
RingMesh ==
    [ co |-> <<<<0, 0, 0>>, <<1, 0, 0>>, <<2, 0, 0>>, <<3, 0, 0>>, <<0, 1, 0>>, <<1, 1, 0>>, <<2, 1, 0>>,
                <<3, 1, 0>>, <<0, 2, 0>>, <<1, 2, 0>>, <<2, 2, 0>>, <<3, 2, 0>>, <<0, 3, 0>>, <<1, 3, 0>>,
                <<2, 3, 0>>, <<3, 3, 0>>>>,
      faces |-> <<<<1, 2, 6, 5>>, <<2, 3, 7, 6>>, <<3, 4, 8, 7>>, <<7, 8, 12, 11>>, <<11, 12, 16, 15>>,
                   <<10, 11, 15, 14>>, <<9, 10, 14, 13>>, <<5, 6, 10, 9>>>>,
      normals |-> <<<<0, 0, 1>>, <<0, 0, 1>>, <<0, 0, 1>>, <<0, 0, 1>>, <<0, 0, 1>>, <<0, 0, 1>>, <<0, 0, 1>>,
                     <<0, 0, 1>>>>,
      edges |-> <<<<1, 2>>, <<2, 6>>, <<6, 5>>, <<5, 1>>, <<2, 3>>, <<3, 7>>, <<7, 6>>, <<3, 4>>, <<4, 8>>,
                   <<8, 7>>, <<8, 12>>, <<12, 11>>, <<11, 7>>, <<12, 16>>, <<16, 15>>, <<15, 11>>, <<10, 11>>,
                   <<15, 14>>, <<14, 10>>, <<9, 10>>, <<14, 13>>, <<13, 9>>, <<6, 10>>, <<9, 5>>>> ]

\* a strip of four rectangles: flat, folded up, folded back
FoldMesh ==
    [ co |-> <<<<0, 0, 0>>, <<0, 1, 0>>, <<1, 0, 0>>, <<1, 1, 0>>, <<3, 0, 0>>, <<3, 1, 0>>, <<3, 0, 1>>,
                <<3, 1, 1>>, <<4, 0, 1>>, <<4, 1, 1>>>>,
      faces |-> <<<<1, 3, 4, 2>>, <<3, 5, 6, 4>>, <<5, 7, 8, 6>>, <<7, 9, 10, 8>>>>,
      normals |-> <<<<0, 0, 1>>, <<0, 0, 1>>, <<-1, 0, 0>>, <<0, 0, 1>>>>,
      edges |-> <<<<1, 3>>, <<3, 4>>, <<4, 2>>, <<2, 1>>, <<3, 5>>, <<5, 6>>, <<6, 4>>, <<5, 7>>, <<7, 8>>,
                   <<8, 6>>, <<7, 9>>, <<9, 10>>, <<10, 8>>>> ]

\* two squares sharing an edge, each with a doubled corner: the edge
\* between the doubles (vertices 4 and 5) has zero length
PinchMesh ==
    [ co |-> <<<<0, 0, 0>>, <<1, 0, 0>>, <<1, 1, 0>>, <<0, 1, 0>>, <<0, 1, 0>>, <<1, 2, 0>>,
                <<0, 2, 0>>>>,
      faces |-> <<<<1, 2, 3, 4, 5>>, <<5, 4, 3, 6, 7>>>>,
      normals |-> <<<<0, 0, 1>>, <<0, 0, 1>>>>,
      edges |-> <<<<1, 2>>, <<2, 3>>, <<3, 4>>, <<4, 5>>, <<5, 1>>, <<3, 6>>, <<6, 7>>, <<7, 5>>>> ]

\* five unit squares around one vertex, 450 degrees in total
SaddleMesh ==
    [ co |-> <<<<0, 0, 0>>, <<1, 0, 0>>, <<1, 1, 0>>, <<0, 1, 0>>, <<-1, 1, 0>>, <<-1, 0, 0>>,
                <<-1, -1, 0>>, <<0, -1, 0>>, <<0, -1, 1>>, <<0, 0, 1>>, <<1, 0, 1>>>>,
      faces |-> <<<<1, 2, 3, 4>>, <<1, 4, 5, 6>>, <<1, 6, 7, 8>>, <<1, 8, 9, 10>>, <<1, 10, 11, 2>>>>,
      normals |-> <<<<0, 0, 1>>, <<0, 0, 1>>, <<0, 0, 1>>, <<-1, 0, 0>>, <<0, 1, 0>>>>,
      edges |-> <<<<1, 2>>, <<2, 3>>, <<3, 4>>, <<4, 1>>, <<4, 5>>, <<5, 6>>, <<6, 1>>, <<6, 7>>, <<7, 8>>,
                   <<8, 1>>, <<8, 9>>, <<9, 10>>, <<10, 1>>, <<10, 11>>, <<11, 2>>>> ]

\* a 3x3 square with a strip of rectangles running around its corner;
\* the last rectangle stands upright and unfolds back over the square
CurlMesh ==
    [ co |-> <<<<0, 0, 0>>, <<3, 0, 0>>, <<3, 3, 0>>, <<0, 3, 0>>, <<4, 0, 0>>, <<4, 3, 0>>, <<4, 4, 0>>,
                <<3, 4, 0>>, <<1, 3, 0>>, <<1, 4, 0>>, <<-1, 3, 0>>, <<-1, 4, 0>>, <<-1, 3, 1>>,
                <<1, 3, 1>>>>,
      faces |-> <<<<1, 2, 3, 4>>, <<2, 5, 6, 3>>, <<3, 6, 7, 8>>, <<9, 3, 8, 10>>, <<11, 9, 10, 12>>,
                   <<9, 11, 13, 14>>>>,
      normals |-> <<<<0, 0, 1>>, <<0, 0, 1>>, <<0, 0, 1>>, <<0, 0, 1>>, <<0, 0, 1>>, <<0, 1, 0>>>>,
      edges |-> <<<<1, 2>>, <<2, 3>>, <<3, 4>>, <<4, 1>>, <<2, 5>>, <<5, 6>>, <<6, 3>>, <<6, 7>>, <<7, 8>>,
                   <<8, 3>>, <<9, 3>>, <<8, 10>>, <<10, 9>>, <<11, 9>>, <<10, 12>>, <<12, 11>>, <<11, 13>>,
                   <<13, 14>>, <<14, 9>>>> ]

\* five flat faces in a row bent into a hook: the first and the last touch
\* at one corner (vertex 2) only
HookMesh ==
    [ co |-> <<<<0, 1, 0>>, <<1, 1, 0>>, <<1, 2, 0>>, <<0, 2, 0>>, <<0, 3, 0>>, <<1, 3, 0>>, <<2, 2, 0>>,
                <<3, 2, 0>>, <<3, 3, 0>>, <<3, 0, 0>>, <<2, 0, 0>>, <<2, 1, 0>>, <<1, 0, 0>>>>,
      faces |-> <<<<1, 2, 3, 4>>, <<4, 3, 6, 5>>, <<3, 7, 8, 9, 6>>, <<11, 10, 8, 7, 12>>,
                   <<13, 11, 12, 2>>>>,
      normals |-> <<<<0, 0, 1>>, <<0, 0, 1>>, <<0, 0, 1>>, <<0, 0, 1>>, <<0, 0, 1>>>>,
      edges |-> <<<<1, 2>>, <<2, 3>>, <<3, 4>>, <<4, 1>>, <<3, 6>>, <<6, 5>>, <<5, 4>>, <<3, 7>>, <<7, 8>>,
                   <<8, 9>>, <<9, 6>>, <<11, 10>>, <<10, 8>>, <<7, 12>>, <<12, 11>>, <<13, 11>>, <<12, 2>>,
                   <<2, 13>>>> ]

\* a flat strip of two squares and a third square standing on its end; the
\* middle square is wound against its neighbours, so that the loops of both
\* shared edges start at the same vertex
TwistMesh ==
    [ co |-> <<<<0, 0, 0>>, <<1, 0, 0>>, <<2, 0, 0>>, <<2, 0, 1>>, <<0, 1, 0>>, <<1, 1, 0>>, <<2, 1, 0>>,
                <<2, 1, 1>>>>,
      faces |-> <<<<1, 2, 6, 5>>, <<2, 6, 7, 3>>, <<3, 4, 8, 7>>>>,
      normals |-> <<<<0, 0, 1>>, <<0, 0, -1>>, <<-1, 0, 0>>>>,
      edges |-> <<<<1, 2>>, <<2, 6>>, <<6, 5>>, <<5, 1>>, <<6, 7>>, <<7, 3>>, <<3, 2>>, <<3, 4>>, <<4, 8>>,
                   <<8, 7>>>> ]

Meshes == <<CubeMesh, RingMesh, FoldMesh, PinchMesh, SaddleMesh, CurlMesh, HookMesh, TwistMesh>>

(***************************************************************************)
(* bmesh connectivity derived from the mesh data. Loops are numbered face  *)
(* by face; loop l of a face runs from its vertex to the next one.         *)
(***************************************************************************)
RECURSIVE SetToSeq(_)
SetToSeq(S) ==
    IF S = {} THEN <<>>
    ELSE LET x == CHOOSE y \in S : \A z \in S : y <= z
         IN <<x>> \o SetToSeq(S \ {x})

RECURSIVE FaceLoops(_, _)
\* <<face, position>> of every loop, up to face f
FaceLoops(fs, f) ==
    IF f = 0 THEN <<>>
    ELSE FaceLoops(fs, f - 1) \o [k \in 1..Len(fs[f]) |-> <<f, k>>]

Connectivity(m) ==
    LET fs == m.faces
        lp == FaceLoops(fs, Len(fs))
        L == 1..Len(lp)
        vert == [l \in L |-> fs[lp[l][1]][lp[l][2]]]
        next == [l \in L |-> IF lp[l][2] = Len(fs[lp[l][1]])
                              THEN l + 1 - Len(fs[lp[l][1]]) ELSE l + 1]
        edge == [l \in L |-> CHOOSE e \in 1..Len(m.edges) :
                     {m.edges[e][1], m.edges[e][2]} = {vert[l], vert[next[l]]}]
    IN [ loop_face |-> [l \in L |-> lp[l][1]],
         loop_vert |-> vert,
         link_loop_next |-> next,
         loop_edge |-> edge,
         face_loops |-> [f \in 1..Len(fs) |-> SetToSeq({l \in L : lp[l][1] = f})],
         edge_link_loops |-> [e \in 1..Len(m.edges) |-> SetToSeq({l \in L : edge[l] = e})],
         vert_link_loops |-> [v \in 1..Len(m.co) |-> SetToSeq({l \in L : vert[l] = v})] ]

Bmesh == [m \in 1..Len(Meshes) |-> Connectivity(Meshes[m])]

Data == Meshes[mesh]
Faces == 1..Len(Data.faces)
Edges == 1..Len(Data.edges)
Loops == 1..Len(Bmesh[mesh].loop_face)
loop_face(l) == Bmesh[mesh].loop_face[l]
loop_vert(l) == Bmesh[mesh].loop_vert[l]
link_loop_next(l) == Bmesh[mesh].link_loop_next[l]
loop_edge(l) == Bmesh[mesh].loop_edge[l]
face_loops(f) == Bmesh[mesh].face_loops[f]
edge_link_loops(e) == Bmesh[mesh].edge_link_loops[e]
vert_link_loops(v) == Bmesh[mesh].vert_link_loops[v]

\* BMLoop.link_loops: the other loops around the edge of l, in radial order
loop_link_loops(l) ==
    LET ring == edge_link_loops(loop_edge(l))
        i == CHOOSE k \in 1..Len(ring) : ring[k] = l
    IN SubSeq(ring, i + 1, Len(ring)) \o SubSeq(ring, 1, i - 1)

(***************************************************************************)
(* Vectors                                                                 *)
(***************************************************************************)
Sub(p, q) == [k \in 1..Len(p) |-> p[k] - q[k]]
Add2(p, q) == <<p[1] + q[1], p[2] + q[2]>>
Dot(p, q) == IF Len(p) = 2 THEN p[1] * q[1] + p[2] * q[2]
             ELSE p[1] * q[1] + p[2] * q[2] + p[3] * q[3]
Cross2(p, q) == p[1] * q[2] - p[2] * q[1]
Cross3(p, q) == <<p[2] * q[3] - p[3] * q[2], p[3] * q[1] - p[1] * q[3], p[1] * q[2] - p[2] * q[1]>>
MatVec(M, v) == <<Dot(M[1], v), Dot(M[2], v)>>
MatMul(M, N) == << <<M[1][1] * N[1][1] + M[1][2] * N[2][1], M[1][1] * N[1][2] + M[1][2] * N[2][2]>>,
                   <<M[2][1] * N[1][1] + M[2][2] * N[2][1], M[2][1] * N[1][2] + M[2][2] * N[2][2]>> >>
Abs(x) == IF x < 0 THEN 0 - x ELSE x
\* comparison of the tuples UVVertex.tup
TupLess(p, q) == p[1] < q[1] \/ (p[1] = q[1] /\ p[2] < q[2])
TupLeq(p, q) == p = q \/ TupLess(p, q)
\* an integer that orders tuples like TupLess, for use as a sort key
TupKey(p) == p[1] * 1000 + p[2]
\* Vector.length of a vector along one axis
AxisLength(v) == Abs(v[1]) + Abs(v[2]) + (IF Len(v) = 3 THEN Abs(v[3]) ELSE 0)

(***************************************************************************)
(* Edge (edge.py) and the flattening of a face (uv.py)                     *)
(***************************************************************************)
\* edge.py:297-298  self.va, self.vb = edge.verts; self.vector = vb.co - va.co
edge_va(e) == Data.edges[e][1]
edge_vb(e) == Data.edges[e][2]
vector(e) == Sub(Data.co[edge_vb(e)], Data.co[edge_va(e)])
normal(l) == Data.normals[loop_face(l)]

RECURSIVE combinations(_)
\* itertools.combinations(s, 2), in its order
combinations(s) ==
    IF Len(s) < 2 THEN <<>>
    ELSE [k \in 1..Len(s) - 1 |-> <<s[1], s[k + 1]>>] \o combinations(Tail(s))

\* edge.py:315-316
score(pair) == Abs(Dot(normal(pair[1]), normal(pair[2])))

\* edge.py:312-325  max() returns the first pair of maximal score
choose_main_faces(e) ==
    LET loops == edge_link_loops(e)
        cs == combinations(loops)
        best == CHOOSE i \in 1..Len(cs) :
                    /\ \A j \in 1..Len(cs) : score(cs[j]) <= score(cs[i])
                    /\ \A j \in 1..(i - 1) : score(cs[j]) < score(cs[i])
        chosen == IF Len(loops) = 2 THEN loops
                  ELSE IF Len(loops) > 2 THEN cs[best]
                  ELSE <<>>
    IN IF chosen # <<>> /\ loop_vert(chosen[2]) = edge_va(e)
       THEN <<chosen[2], chosen[1]>> ELSE chosen

\* Vector.normalized() of a vector along one axis (the zero vector stays zero)
normalized(v) ==
    IF AxisLength(v) = 0 THEN v ELSE [k \in 1..Len(v) |-> v[k] \div AxisLength(v)]

\* edge.py:327-338  the normals are unit vectors along an axis, so s is -1, 0
\* or 1 and asin(s) is s quarter turns; no face of the meshes has a null normal
calculate_angle(e, mf) ==
    LET loop_a == mf[1]
        loop_b == mf[2]
        s == Dot(Cross3(normal(loop_a), normal(loop_b)), normalized(vector(e)))
    IN IF \/ loop_vert(link_loop_next(loop_a)) # loop_vert(loop_b)
          \/ loop_vert(link_loop_next(loop_b)) # loop_vert(loop_a)
       THEN Abs(s) ELSE s

\* edge.py:340-347  the priority multiplied by 40 * (sum of the edges'
\* lengths), a positive factor shared by all edges: priority_effect is in
\* twentieths, angle / pi is half the number of quarter turns, and
\* average_length is total / count
generate_priority(e, total, count) ==
    LET a == angle[e]
        turn == IF a > 0 THEN priority_effect[1] * a ELSE priority_effect[2] * (0 - a)
    IN turn * total + 2 * AxisLength(vector(e)) * count * priority_effect[3]

\* uv.py:7-23  for a unit normal along an axis b and s are 0 or 1
z_up_matrix(n) ==
    LET b == AxisLength(<<n[1], n[2]>>)
        s == AxisLength(n)
    IN IF b > 0
       THEN << <<(n[1] * n[3]) \div (b * s), (n[2] * n[3]) \div (b * s), (0 - b) \div s>>,
               <<(0 - n[2]) \div b, n[1] \div b, 0>> >>
       ELSE << <<1, 0, 0>>, <<0, IF n[3] < 0 THEN -1 ELSE 1, 0>> >>

\* uv.py:91-92  flatten @ loop.vert.co, with the identity as world matrix
flatten(l) == MatVec(z_up_matrix(normal(l)), Data.co[loop_vert(l)])

\* uv.py:52-56  UVEdge.update: <<min, max, bottom, top>>
update(a, b, c) ==
    LET mm == IF TupLess(c[a], c[b]) THEN <<a, b>> ELSE <<b, a>>
        bt == IF c[a][2] < c[b][2] THEN <<c[a][2], c[b][2]>> ELSE <<c[b][2], c[a][2]>>
    IN <<mm[1], mm[2], bt[1], bt[2]>>

RECURSIVE Flatten(_)
Flatten(ss) == IF ss = <<>> THEN <<>> ELSE Head(ss) \o Flatten(Tail(ss))

SelectSeq2(s, S) == SelectSeq(s, LAMBDA x : x \in S)

(***************************************************************************)
(* Inputs of generate_cuts                                                 *)
(***************************************************************************)
MaxSeams == 1

\* the default weights (0.5, 1.0, -0.05), no preference, and long edges last
PriorityEffects == {<<10, 20, -1>>, <<0, 0, 0>>, <<10, 20, 1>>}

\* unfold.py:37  None (limit_by_page is off), or cage_size / scale: a square
\* page of two units
PageSizes == {<<>>, <<2, 2>>}

RECURSIVE SubsetsUpTo(_, _)
SubsetsUpTo(S, k) ==
    IF k = 0 THEN {{}}
    ELSE LET smaller == SubsetsUpTo(S, k - 1)
         IN smaller \cup {T \cup {x} : T \in smaller, x \in S}

Reversed(s) == [k \in 1..Len(s) |-> s[Len(s) + 1 - k]]
Ascending(n) == [k \in 1..n |-> k]

PackIdle ==
    /\ cage_size = <<0, 0>> /\ islands = <<>> /\ pos = <<>> /\ pages = <<>>
    /\ remaining_islands = <<>> /\ cursor = 0 /\ page_islands = <<>>
    /\ stops_x = <<>> /\ stops_y = <<>> /\ occupied_cache = {} /\ pc = "idle"

\* mesh.py:15-27, edge.py:295-310  the state after Mesh.__init__
CutInitOf(meshes, maxSeams) ==
    /\ mesh \in meshes
    /\ page_size \in PageSizes
    /\ force_cut \in SubsetsUpTo(Edges, maxSeams)
    /\ priority_effect \in PriorityEffects
    /\ edge_order \in {Ascending(Len(Data.edges)), Reversed(Ascending(Len(Data.edges)))}
    /\ island_order \in {Ascending(Len(Data.faces)), Reversed(Ascending(Len(Data.faces)))}
    /\ main_faces = [e \in Edges |-> choose_main_faces(e)]
    /\ angle = [e \in Edges |-> IF main_faces[e] # <<>>
                                THEN calculate_angle(e, main_faces[e]) ELSE 0]
    /\ priority = [e \in Edges |-> 0]
    /\ is_main_cut = [e \in Edges |-> TRUE]
    /\ uvedges = [e \in Edges |-> <<>>]
    /\ island_set = {} /\ edges = <<>> /\ edge_i = 0 /\ old_island = 0
    /\ mesh_islands = <<>> /\ join_calls = <<>> /\ cpc = "start"
    /\ faces = <<>> /\ boundary = <<>> /\ has_safe_geometry = <<>>
    /\ is_inside_out = <<>> /\ vertices = <<>>
    /\ uvface_island = <<>> /\ flipped = <<>> /\ uvface_vertices = <<>>
    /\ uvedge_va = <<>> /\ uvedge_vb = <<>> /\ uvedge_min = <<>> /\ uvedge_max = <<>>
    /\ uvedge_bottom = <<>> /\ uvedge_top = <<>>
    /\ neighbor_left = <<>> /\ neighbor_right = <<>> /\ co = <<>>
    /\ PackIdle /\ CoalescingIdle /\ SweepingIdle /\ ExportingIdle

\* the edges with main faces, seams included
CandidatesWithSeams == SelectSeq2(edge_order, {e \in Edges : main_faces[e] # <<>>})

\* mesh.py:114  "check for edges that are cut permanently"
Candidates == SelectSeq2(edge_order, {e \in Edges : e \notin force_cut /\ main_faces[e] # <<>>})

RECURSIVE SumOfLengths(_)
\* mesh.py:117  sum(edge.vector.length for edge in edges)
SumOfLengths(s) ==
    IF s = <<>> THEN 0 ELSE AxisLength(vector(Head(s))) + SumOfLengths(Tail(s))

\* mesh.py:107-120  one island per face, the uvedges of every edge, the
\* edges that may be joined, sorted by priority; when all of them have length
\* zero the first generate_priority raises ZeroDivisionError
GenerateCutsStart ==
    /\ cpc = "start"
    /\ LET c == [l \in Loops |-> flatten(l)]
           upd == [l \in Loops |-> update(l, link_loop_next(l), c)]
           all_loops == Flatten([k \in 1..Len(island_order) |-> face_loops(island_order[k])])
           prio == [e \in Edges |-> IF e \in Range(Candidates)
                                    THEN generate_priority(e, SumOfLengths(Candidates), Len(Candidates))
                                    ELSE 0]
       IN /\ co' = c
          /\ vertices' = [l \in Loops |-> l]
          /\ uvface_vertices' = [l \in Loops |-> l]
          /\ uvedge_va' = [l \in Loops |-> l]
          /\ uvedge_vb' = [l \in Loops |-> link_loop_next(l)]
          /\ uvedge_min' = [l \in Loops |-> upd[l][1]]
          /\ uvedge_max' = [l \in Loops |-> upd[l][2]]
          /\ uvedge_bottom' = [l \in Loops |-> upd[l][3]]
          /\ uvedge_top' = [l \in Loops |-> upd[l][4]]
          /\ uvface_island' = [f \in Faces |-> f]
          /\ flipped' = [f \in Faces |-> FALSE]
          /\ faces' = [f \in Faces |-> <<f>>]
          /\ boundary' = [f \in Faces |-> face_loops(f)]
          /\ has_safe_geometry' = [f \in Faces |-> TRUE]
          /\ is_inside_out' = [f \in Faces |-> FALSE]
          /\ island_set' = Faces
          /\ uvedges' = [e \in Edges |-> SelectSeq2(all_loops, Range(edge_link_loops(e)))]
          /\ priority' = prio
          /\ IF Candidates # <<>> /\ SumOfLengths(Candidates) = 0
             THEN \* mesh.py:117-119, edge.py:347  division by a zero average_length
                  edges' = Candidates /\ edge_i' = 0 /\ cpc' = "ZeroDivisionError"
             ELSE edges' = SortedBy(Candidates, prio) /\ edge_i' = 1 /\ cpc' = "join"
    /\ neighbor_left' = [l \in Loops |-> 0]
    /\ neighbor_right' = [l \in Loops |-> 0]
    /\ UNCHANGED <<inputVars, main_faces, angle, is_main_cut, old_island, mesh_islands, join_calls,
                   packVars, coalescing, sweeping, exporting>>

(***************************************************************************)
(* join_island (edge.py): segments and the sweep.                          *)
(* A vertex reference is the number of an existing UVVertex, or the        *)
(* negated number of a UVVertex of island_b for its freshly made phantom.  *)
(* at maps references to coordinates. A segment is a record: a UVEdge of   *)
(* island_a.boundary (phantom = FALSE) or a PhantomUVEdge.                 *)
(***************************************************************************)
\* uv.py:69-73  PhantomUVEdge(vertex1, vertex2, flip), made for uvedge l
PhantomUVEdge(vertex1, vertex2, flip, l, at) ==
    LET a == IF flip THEN vertex2 ELSE vertex1
        b == IF flip THEN vertex1 ELSE vertex2
        low == TupLess(at[a], at[b])
    IN [ phantom |-> TRUE, loop |-> l, va |-> a, vb |-> b,
         min |-> IF low THEN a ELSE b, max |-> IF low THEN b ELSE a,
         bottom |-> IF at[a][2] < at[b][2] THEN at[a][2] ELSE at[b][2],
         top |-> IF at[a][2] < at[b][2] THEN at[b][2] ELSE at[a][2],
         \* uv.py:75-76
         up |-> low ]

\* the UVEdge l as it stands; up is uv.py:58-59 is_uvface_upwards
UVEdgeSegment(l) ==
    [ phantom |-> FALSE, loop |-> l, va |-> uvedge_va[l], vb |-> uvedge_vb[l],
      min |-> uvedge_min[l], max |-> uvedge_max[l],
      bottom |-> uvedge_bottom[l], top |-> uvedge_top[l],
      up |-> TupLess(co[uvedge_va[l]], co[uvedge_vb[l]]) # flipped[loop_face(l)] ]

Min(x, y) == IF y < x THEN y ELSE x
Max(x, y) == IF y < x THEN x ELSE y

\* the comparison if it raised its exceptions for BruteSweepline only
\* (correct_geometry False)
is_below_by_cross_lenient(self, other, correct_geometry, at, cross_a1, cross_a2, cross_b1, cross_b2) ==
            IF cross_b2 > 0 /\ (cross_b1 > 0 \/ (cross_b1 = 0 /\ ~self.up)) THEN "True"
       ELSE IF cross_b1 < 0 /\ (cross_b2 < 0 \/ (cross_b2 = 0 /\ self.up)) THEN "False"
       ELSE IF cross_a2 > 0 /\ (cross_a1 > 0 \/ (cross_a1 = 0 /\ ~other.up)) THEN "False"
       ELSE IF cross_a1 < 0 /\ (cross_a2 < 0 \/ (cross_a2 = 0 /\ other.up)) THEN "True"
       ELSE IF cross_a1 = 0 /\ cross_b1 = 0 /\ cross_a2 = 0 /\ cross_b2 = 0
            THEN IF correct_geometry THEN "False"
                 ELSE IF self.up = other.up THEN "Intersection"
                 ELSE "False"
       ELSE IF at[self.min] = at[other.min] \/ at[self.max] = at[other.max]
            THEN IF cross_a2 > cross_b2 THEN "True" ELSE "False"
       ELSE IF correct_geometry THEN "False"
       ELSE "Intersection"

\* edge.py:41-66  the comparison by the cross products
is_below_by_cross(self, other, correct_geometry, at, cross_a1, cross_a2, cross_b1, cross_b2) ==
            IF cross_b2 > 0 /\ (cross_b1 > 0 \/ (cross_b1 = 0 /\ ~self.up)) THEN "True"
       ELSE IF cross_b1 < 0 /\ (cross_b2 < 0 \/ (cross_b2 = 0 /\ self.up)) THEN "False"
       ELSE IF cross_a2 > 0 /\ (cross_a1 > 0 \/ (cross_a1 = 0 /\ ~other.up)) THEN "False"
       ELSE IF cross_a1 < 0 /\ (cross_a2 < 0 \/ (cross_a2 = 0 /\ other.up)) THEN "True"
       ELSE IF cross_a1 = 0 /\ cross_b1 = 0 /\ cross_a2 = 0 /\ cross_b2 = 0
            THEN IF correct_geometry THEN "GeometryError"
                 ELSE IF self.up = other.up THEN "Intersection"
                 ELSE "False"
       ELSE IF at[self.min] = at[other.min] \/ at[self.max] = at[other.max]
            THEN IF cross_a2 > cross_b2 THEN "True" ELSE "False"
       ELSE "Intersection"

\* edge.py:28-66  "True", "False", or the exception raised
is_below(self, other, correct_geometry, at) ==
    IF self = other THEN "False"
    ELSE IF self.top < other.bottom THEN "True"
    ELSE IF other.top < self.bottom THEN "False"
    ELSE IF TupLeq(at[self.max], at[other.min]) THEN "True"
    ELSE IF TupLeq(at[other.max], at[self.min]) THEN "False"
    ELSE is_below_by_cross(self, other, correct_geometry, at,
             Min(Cross2(Sub(at[other.max], at[other.min]), Sub(at[self.min], at[other.min])),
                 Cross2(Sub(at[other.max], at[other.min]), Sub(at[self.max], at[other.min]))),
             Max(Cross2(Sub(at[other.max], at[other.min]), Sub(at[self.min], at[other.min])),
                 Cross2(Sub(at[other.max], at[other.min]), Sub(at[self.max], at[other.min]))),
             Min(Cross2(Sub(at[self.max], at[self.min]), Sub(at[other.min], at[self.min])),
                 Cross2(Sub(at[self.max], at[self.min]), Sub(at[other.max], at[self.min]))),
             Max(Cross2(Sub(at[self.max], at[self.min]), Sub(at[other.min], at[self.min])),
                 Cross2(Sub(at[self.max], at[self.min]), Sub(at[other.max], at[self.min]))))

\* the outcome of a step that may raise: the exception (or "") and the value
Returned(v) == [raised |-> "", value |-> v]
Raise(x) == [raised |-> x, value |-> <<>>]
Raised(r) == r \in {"GeometryError", "Intersection"}

RECURSIVE QuickSearch(_, _, _, _, _), QuickSearchStep(_, _, _, _, _, _, _)
\* edge.py:74-80  the binary search of QuickSweepline.add: the insertion
\* index (counted from 0), unless a comparison raises
QuickSearch(children, item, low, high, at) ==
    IF low < high
    THEN QuickSearchStep(children, item, low, high, at, (low + high) \div 2,
                         is_below(children[((low + high) \div 2) + 1], item, TRUE, at))
    ELSE Returned(low)

\* edge.py:76-80  one halving, c being is_below(self.children[mid], item)
QuickSearchStep(children, item, low, high, at, mid, c) ==
    IF Raised(c) THEN Raise(c)
    ELSE IF c = "True" THEN QuickSearch(children, item, mid + 1, high, at)
    ELSE QuickSearch(children, item, low, mid, at)

InsertAt(s, i, x) == SubSeq(s, 1, i) \o <<x>> \o SubSeq(s, i + 1, Len(s))
RemoveAt(s, i) == SubSeq(s, 1, i - 1) \o SubSeq(s, i + 1, Len(s))

\* edge.py:81  self.children.insert(low, item), unless the search raised
QuickInsert(children, item, low) ==
    IF low.raised # "" THEN low ELSE Returned(InsertAt(children, low.value, item))

\* edge.py:73-81  QuickSweepline.add
QuickAdd(children, item, at) ==
    QuickInsert(children, item, QuickSearch(children, item, 0, Len(children), at))

\* edge.py:86-89  the neighbours that meet once the item is gone; c is
\* is_below(self.children[index], self.children[index-1])
QuickRemoveCheck(rest, c) ==
    IF Raised(c) THEN Raise(c)
    ELSE IF c = "True" THEN Raise("GeometryError")
    ELSE Returned(rest)

\* edge.py:84-89  index (counted from 1) is self.children.index(item)
QuickRemoveAt(children, index, at) ==
    IF index > 1 /\ index < Len(children)
    THEN QuickRemoveCheck(RemoveAt(children, index),
                          is_below(children[index + 1], children[index - 1], TRUE, at))
    ELSE Returned(RemoveAt(children, index))

\* edge.py:83-89  QuickSweepline.remove
QuickRemove(children, item, at) ==
    QuickRemoveAt(children, CHOOSE i \in 1..Len(children) : children[i] = item, at)

\* what it would be if segments chained end to start were passed over too
BruteComparandsUnchained(children, item) ==
    {child \in children :
         /\ child.min # item.min /\ child.max # item.max
         /\ child.max # item.min /\ child.min # item.max}

\* edge.py:97-98  the children that BruteSweepline.add compares the item with
BruteComparands(children, item) ==
    {child \in children : child.min # item.min /\ child.max # item.max}

\* BruteSweepline.add calling cmp(item, child) with the default correct_geometry
BruteAddDefault(children, item, at) ==
    LET clash == {child \in BruteComparands(children, item) :
                     Raised(is_below(item, child, TRUE, at))}
    IN IF clash # {}
       THEN Raise(is_below(item, CHOOSE child \in clash : TRUE, TRUE, at))
       ELSE Returned(children \cup {item})

\* edge.py:96-100  BruteSweepline.add: the comparison serves for its exception
BruteAdd(children, item, at) ==
    LET clash == {child \in BruteComparands(children, item) :
                     Raised(is_below(item, child, FALSE, at))}
    IN IF clash # {}
       THEN Raise(is_below(item, CHOOSE child \in clash : TRUE, FALSE, at))
       ELSE Returned(children \cup {item})

\* edge.py:102-103
BruteRemove(children, item) == Returned(children \ {item})

\* what it would be if an event were added only before a strictly later removal
SweepAddsNextStrict(events_add, events_remove, at) ==
    /\ events_add # <<>>
    /\ TupLess(at[events_add[Len(events_add)].min], at[events_remove[Len(events_remove)].max])

\* edge.py:111  "while events_add and events_add[-1].min.tup <= events_remove[-1].max.tup"
SweepAddsNext(events_add, events_remove, at) ==
    /\ events_add # <<>>
    /\ TupLeq(at[events_add[Len(events_add)].min], at[events_remove[Len(events_remove)].max])

RECURSIVE SweepLoop(_, _, _, _, _), SweepOn(_, _, _, _, _)
\* edge.py:110-113  events are popped from the end of the lists; the result
\* is "ok" or the exception that ended the sweep
SweepLoop(quick, events_add, events_remove, children, at) ==
    IF events_remove = <<>> THEN "ok"
    ELSE IF SweepAddsNext(events_add, events_remove, at)
    THEN SweepOn(quick, SubSeq(events_add, 1, Len(events_add) - 1), events_remove, at,
                 IF quick THEN QuickAdd(children, events_add[Len(events_add)], at)
                 ELSE BruteAdd(children, events_add[Len(events_add)], at))
    ELSE SweepOn(quick, events_add, SubSeq(events_remove, 1, Len(events_remove) - 1), at,
                 IF quick THEN QuickRemove(children, events_remove[Len(events_remove)], at)
                 ELSE BruteRemove(children, events_remove[Len(events_remove)]))

\* the sweep goes on with the children that add or remove left, unless it raised
SweepOn(quick, events_add, events_remove, at, step) ==
    IF step.raised # "" THEN step.raised
    ELSE SweepLoop(quick, events_add, events_remove, step.value, at)

\* edge.py:107-113  events_remove is sorted from events_add
SweepEvents(quick, events_add, at) ==
    SweepLoop(quick, events_add,
              SortedBy(events_add, [x \in Range(events_add) |-> 0 - TupKey(at[x.max])]),
              IF quick THEN <<>> ELSE {}, at)

\* edge.py:105-113  sorted(..., reverse=True) keeps the order of equal keys
sweep(quick, segments, at) ==
    SweepEvents(quick, SortedBy(segments, [x \in Range(segments) |-> 0 - TupKey(at[x.min])]), at)

(***************************************************************************)
(* join_island: the union-find over UVVertices (phantoms)                  *)
(***************************************************************************)
RECURSIVE root_of(_, _)
root_of(value, tree) ==
    IF value \in DOMAIN tree THEN root_of(tree[value], tree) ELSE value

RECURSIVE relink(_, _)
\* the values walked through before the root is reached
relink(value, tree) ==
    IF value \in DOMAIN tree THEN {value} \cup relink(tree[value], tree) ELSE {}

\* edge.py:115-123  the root and the tree after path compression
root_find(value, tree) ==
    [ value |-> root_of(value, tree),
      tree |-> [k \in DOMAIN tree |-> IF k \in relink(value, tree)
                                      THEN root_of(value, tree) ELSE tree[k]] ]

\* the test "length_squared < distance_limit", distance_limit being the
\* fraction limit[1] / limit[2]
Close(p, q, limit) == length_squared(Sub(p, q)) * limit[2] < limit[1]

RECURSIVE product(_, _)
\* itertools.product(s, t), in its order
product(s, t) ==
    IF s = <<>> THEN <<>>
    ELSE [k \in 1..Len(t) |-> <<s[1], t[k]>>] \o product(Tail(s), t)

RECURSIVE merge_ab(_, _, _, _)
\* edge.py:179-181  st = [tree, is_merged_mine, passed]; passed collects the
\* pairs whose distance test succeeded
merge_ab(pairs, st, at, limit) ==
    IF pairs = <<>> THEN st
    ELSE LET a == pairs[1][1]
             b == pairs[1][2]
             found == root_find(a, st.tree)
         IN merge_ab(Tail(pairs),
                     IF Close(at[a], at[st.tree[b]], limit)
                     THEN [st EXCEPT !.tree = [found.tree EXCEPT ![b] = found.value],
                                     !.passed = @ \cup {<<a, b>>}]
                     ELSE st,
                     at, limit)

RECURSIVE merge_aa_same_root(_, _, _, _)
\* what it would be without the test "if a1 is not a2"
merge_aa_same_root(pairs, st, at, limit) ==
    IF pairs = <<>> THEN st
    ELSE LET first == root_find(pairs[1][1], st.tree)
             second == root_find(pairs[1][2], first.tree)
             a1 == first.value
             a2 == second.value
         IN merge_aa_same_root(Tail(pairs),
                     IF Close(at[pairs[1][1]], at[pairs[1][2]], limit)
                     THEN [ tree |-> [k \in DOMAIN second.tree \cup {a2} |->
                                         IF k = a2 THEN a1 ELSE second.tree[k]],
                            is_merged_mine |-> TRUE,
                            passed |-> st.passed \cup {pairs[1]} ]
                     ELSE st,
                     at, limit)

RECURSIVE merge_aa(_, _, _, _)
\* edge.py:182-187
merge_aa(pairs, st, at, limit) ==
    IF pairs = <<>> THEN st
    ELSE LET first == root_find(pairs[1][1], st.tree)
             second == root_find(pairs[1][2], first.tree)
             a1 == first.value
             a2 == second.value
         IN merge_aa(Tail(pairs),
                     IF Close(at[pairs[1][1]], at[pairs[1][2]], limit)
                     THEN IF a1 # a2
                          THEN [ tree |-> [k \in DOMAIN second.tree \cup {a2} |->
                                              IF k = a2 THEN a1 ELSE second.tree[k]],
                                 is_merged_mine |-> TRUE,
                                 passed |-> st.passed \cup {pairs[1]} ]
                          ELSE [st EXCEPT !.tree = second.tree, !.passed = @ \cup {pairs[1]}]
                     ELSE st,
                     at, limit)

\* what it would be without the pass of edge.py:188-190
normalise_none(sources, tree) == tree

RECURSIVE normalise(_, _)
\* edge.py:188-190  every source is pointed at its root
normalise(sources, tree) ==
    IF sources = <<>> THEN tree
    ELSE LET found == root_find(tree[Head(sources)], tree)
         IN normalise(Tail(sources), [found.tree EXCEPT ![Head(sources)] = found.value])

\* the body without the loop over the pairs of uvs_a
coalesce_vertex_ab_only(uvs_a, uvs_b, st, at, limit) ==
    LET ab == merge_ab(product(uvs_a, uvs_b), st, at, limit)
    IN [ab EXCEPT !.tree = normalise(SetToSeq(DOMAIN ab.tree), ab.tree)]

\* edge.py:177-190  the body of "for vertex in shared_vertices"; uvs_a and
\* uvs_b are given in the order in which the sets are iterated
coalesce_vertex(uvs_a, uvs_b, st, at, limit) ==
    LET ab == merge_ab(product(uvs_a, uvs_b), st, at, limit)
        aa == merge_aa(combinations(uvs_a), ab, at, limit)
    IN [aa EXCEPT !.tree = normalise(SetToSeq(DOMAIN aa.tree), aa.tree)]

(***************************************************************************)
(* join_island: the checks (edge.py:131-244)                               *)
(***************************************************************************)
EpsilonInverse == 1000000

\* the limit if it were the square of length times epsilon: the fraction
\* length^2 * per_unit_squared / EpsilonInverse^2; squared distances are whole
\* numbers, so the numerator over EpsilonInverse may be rounded up
distance_limit_squared(length, per_unit_squared) ==
    <<(length * length * per_unit_squared + EpsilonInverse - 1) \div EpsilonInverse, EpsilonInverse>>

\* edge.py:166  distance_limit = calc_length() * epsilon, as a fraction in
\* squares of the unit in which positions are counted; per_unit_squared is
\* the number of such squares in a square of the unit of length
distance_limit(length, per_unit_squared) == <<length * per_unit_squared, EpsilonInverse>>

island_of(l) == uvface_island[loop_face(l)]
\* the keys of island.edges and of island.vertices, in dict order
island_loops(i) == Flatten([k \in 1..Len(faces[i]) |-> face_loops(faces[i][k])])

\* edge.py:9-13  exact for vectors of equal length along the axes
fitting_matrix(v1, v2) ==
    LET d == length_squared(v1)
    IN << <<(v1[1] * v2[1] + v1[2] * v2[2]) \div d, (v1[2] * v2[1] - v1[1] * v2[2]) \div d>>,
          <<(v1[1] * v2[2] - v1[2] * v2[1]) \div d, (v1[1] * v2[1] + v1[2] * v2[2]) \div d>> >>

\* edge.py:149  trans, and what the rest of join_island uses
Transformation(uvedge_a, uvedge_b, flip, first_b, rot) ==
    [ uvedge_a |-> uvedge_a, uvedge_b |-> uvedge_b,
      island_a |-> island_of(uvedge_a), island_b |-> island_of(uvedge_b),
      flipped |-> flip, rot |-> rot,
      trans |-> Sub(co[uvedge_vb[uvedge_a]], MatVec(rot, co[first_b])) ]

\* edge.py:144-148  rot
Rotation(uvedge_a, uvedge_b, flip, first_b, second_b) ==
    Transformation(uvedge_a, uvedge_b, flip, first_b,
        IF ~flip
        THEN fitting_matrix(Sub(co[first_b], co[second_b]),
                            Sub(co[uvedge_vb[uvedge_a]], co[uvedge_va[uvedge_a]]))
        ELSE MatMul(fitting_matrix(MatVec(<< <<-1, 0>>, <<0, 1>> >>, Sub(co[first_b], co[second_b])),
                                   Sub(co[uvedge_vb[uvedge_a]], co[uvedge_va[uvedge_a]])),
                    << <<-1, 0>>, <<0, 1>> >>))

\* the alignment when loops that start at different vertices are taken for
\* a sign of opposite winding
AlignmentOpposite(uvedge_a, uvedge_b, verts_flipped) ==
    Rotation(uvedge_a, uvedge_b,
             ((~verts_flipped) # flipped[loop_face(uvedge_a)]) # flipped[loop_face(uvedge_b)],
             IF verts_flipped THEN uvedge_vb[uvedge_b] ELSE uvedge_va[uvedge_b],
             IF verts_flipped THEN uvedge_va[uvedge_b] ELSE uvedge_vb[uvedge_b])

\* edge.py:138-143  flipped, first_b and second_b
Alignment(uvedge_a, uvedge_b, verts_flipped) ==
    Rotation(uvedge_a, uvedge_b,
             (verts_flipped # flipped[loop_face(uvedge_a)]) # flipped[loop_face(uvedge_b)],
             IF verts_flipped THEN uvedge_vb[uvedge_b] ELSE uvedge_va[uvedge_b],
             IF verts_flipped THEN uvedge_va[uvedge_b] ELSE uvedge_vb[uvedge_b])

\* what the frame would be if the islands were never swapped
JoinFrameNoSwap(uvedge_a0, uvedge_b0) ==
    Alignment(uvedge_a0, uvedge_b0, loop_vert(uvedge_b0) = loop_vert(uvedge_a0))

\* edge.py:131-149  the islands, swapped if island_b is larger, and the
\* transformation of island_b
JoinFrame(uvedge_a0, uvedge_b0) ==
    IF Len(faces[island_of(uvedge_b0)]) > Len(faces[island_of(uvedge_a0)])
    THEN Alignment(uvedge_b0, uvedge_a0, loop_vert(uvedge_a0) = loop_vert(uvedge_b0))
    ELSE Alignment(uvedge_a0, uvedge_b0, loop_vert(uvedge_b0) = loop_vert(uvedge_a0))

\* the coordinates behind every vertex reference: UVVertex.co, and for the
\* phantom of v (edge.py:151) rot @ v.co + trans
PhantomPositions(frame) ==
    [r \in Loops \cup {0 - l : l \in Loops} |->
        IF r > 0 THEN co[r] ELSE Add2(MatVec(frame.rot, co[0 - r]), frame.trans)]

RECURSIVE coalesce(_, _, _, _, _, _)
\* edge.py:176-190  "for vertex in shared_vertices"
coalesce(verts, st, loops_a, loops_b, at, limit) ==
    IF verts = <<>> THEN st
    ELSE LET around == Range(vert_link_loops(Head(verts)))
             uvs_a == SetToSeq({vertices[l] : l \in around \cap loops_a})
             uvs_b == SetToSeq({vertices[l] : l \in around \cap loops_b})
         IN coalesce(Tail(verts), coalesce_vertex(uvs_a, uvs_b, st, at, limit),
                     loops_a, loops_b, at, limit)

\* edge.py:151-190  phantoms after the merging of close vertices
JoinPhantoms(frame, at) ==
    LET loops_a == Range(island_loops(frame.island_a))
        loops_b == Range(island_loops(frame.island_b))
        shared_vertices == SetToSeq({loop_vert(l) : l \in loops_a \cup loops_b})
    IN coalesce(shared_vertices,
                [ tree |-> [v \in {vertices[l] : l \in loops_b} |-> 0 - v],
                  is_merged_mine |-> FALSE, passed |-> {} ],
                loops_a, loops_b, at,
                distance_limit(AxisLength(vector(loop_edge(frame.uvedge_a))), 1))

\* phantoms.values()
Image(tree) == {tree[v] : v \in DOMAIN tree}

\* phantoms.get(v, v)
get(tree, v) == IF v \in DOMAIN tree THEN tree[v] ELSE v

\* edge.py:194-199  will uvedge and partner be merged?
Fits(uvedge, partner, frame, tree) ==
    /\ partner \in Range(island_loops(frame.island_b)) \cup Range(island_loops(frame.island_a))
    /\ partner # uvedge
    /\ LET swap == (flipped[loop_face(partner)] # frame.flipped) # flipped[loop_face(uvedge)]
           paired_a == IF swap THEN get(tree, uvedge_va[partner]) ELSE get(tree, uvedge_vb[partner])
           paired_b == IF swap THEN get(tree, uvedge_vb[partner]) ELSE get(tree, uvedge_va[partner])
       IN get(tree, uvedge_va[uvedge]) = paired_a /\ get(tree, uvedge_vb[uvedge]) = paired_b

\* edge.py:192-203  merged_uvedge_pairs
MergedPairs(frame, ph) ==
    LET candidates == IF ph.is_merged_mine
                      THEN boundary[frame.island_a] \o boundary[frame.island_b]
                      ELSE boundary[frame.island_b]
        partners(uvedge) == SelectSeq(loop_link_loops(uvedge),
                                      LAMBDA loop : Fits(uvedge, loop, frame, ph.tree))
    IN Flatten([k \in 1..Len(candidates) |->
                   IF partners(candidates[k]) = <<>> THEN <<>>
                   ELSE << <<candidates[k], partners(candidates[k])[1]>> >>])

PairMembers(pairs) == {p[1] : p \in Range(pairs)} \cup {p[2] : p \in Range(pairs)}

\* edge.py:208-215  chain(boundary_other, island_a.boundary)
JoinSegments(frame, tree, merged_uvedges, at) ==
    LET others == SelectSeq(boundary[frame.island_b], LAMBDA l : l \notin merged_uvedges)
    IN [k \in 1..Len(others) |->
           PhantomUVEdge(tree[uvedge_va[others[k]]], tree[uvedge_vb[others[k]]],
                         frame.flipped # flipped[loop_face(others[k])], others[k], at)]
       \o [k \in 1..Len(boundary[frame.island_a]) |-> UVEdgeSegment(boundary[frame.island_a][k])]

\* edge.py:125-129  slope_from(position)(uvedge): instead of the key, the
\* vector it is computed from
SlopeVector(seg, position, at) ==
    IF at[seg.va] = position THEN Sub(at[seg.vb], at[seg.va]) ELSE Sub(at[seg.va], at[seg.vb])

\* vec.y / vec.length of v is less than that of w
SineLess(v, w) ==
    LET sq(y) == IF y < 0 THEN 0 - y * y ELSE y * y
    IN sq(v[2]) * length_squared(w) < sq(w[2]) * length_squared(v)

\* edge.py:128  the key of v is less than the key of w
SlopeLess(v, w) ==
    LET right(u) == u[1] > 0 \/ (u[1] = 0 /\ u[2] > 0)
    IN IF right(v) /\ right(w) THEN SineLess(v, w)
       ELSE IF ~right(v) /\ ~right(w) THEN SineLess(w, v)
       ELSE ~right(v)

RECURSIVE InsertBySlope(_, _, _, _)
InsertBySlope(x, s, position, at) ==
    IF s = <<>> THEN <<x>>
    ELSE IF SlopeLess(SlopeVector(x, position, at), SlopeVector(Head(s), position, at))
    THEN <<x>> \o s
    ELSE <<Head(s)>> \o InsertBySlope(x, Tail(s), position, at)

RECURSIVE SortedBySlope(_, _, _)
\* edge.py:225  segments.sort(key=slope_from(position)), a stable sort
SortedBySlope(s, position, at) ==
    IF s = <<>> THEN <<>>
    ELSE InsertBySlope(s[Len(s)], SortedBySlope(SubSeq(s, 1, Len(s) - 1), position, at), position, at)

\* edge.py:223-232  the test of the segments meeting at one position
FanFits(position, segments, merged_uvedges, at) ==
    LET site == SelectSeq(segments, LAMBDA seg :
                    /\ at[seg.va] # at[seg.vb]
                    /\ at[seg.va] = position \/ at[seg.vb] = position)
        sorted == SortedBySlope(site, position, at)
        n == Len(sorted)
        ccw(seg) == seg.up # (at[seg.max] = position)
        merged(seg) == ~seg.phantom /\ seg.loop \in merged_uvedges
    IN n <= 2 \/ \A k \in 1..n :
           LET right == sorted[k]
               left == sorted[(k % n) + 1]
           IN /\ ~(/\ ccw(right) /\ ~ccw(left) /\ right.phantom # left.phantom
                   /\ ~merged(right) /\ ~merged(left))
              /\ (~ccw(right) /\ ~merged(right)) = (ccw(left) /\ ~merged(left))

\* edge.py:213-232
IncidenceFits(frame, tree, segments, merged_uvedges, at) ==
    LET incidence == {at[tree[v]] : v \in DOMAIN tree}
                     \cap {co[vertices[l]] : l \in Range(island_loops(frame.island_a))}
    IN \A position \in incidence : FanFits(position, segments, merged_uvedges, at)

(***************************************************************************)
(* join_island as a whole: what it returns or raises, and what it changes  *)
(***************************************************************************)
\* what it would do if the GeometryError of the first sweep were forgotten
\* once the second sweep has passed
SweptForgetful(checked, first, second) ==
    [checked EXCEPT !.first = IF first = "GeometryError" /\ second = "ok" THEN "ok" ELSE first,
                    !.second = second,
                    !.ret = IF first = "Intersection" \/ second = "Intersection" THEN "False"
                            ELSE IF second = "GeometryError" THEN "GeometryError"
                            ELSE "joined"]

\* edge.py:234-244  the outcome of the two sweeps
Swept(checked, first, second) ==
    [checked EXCEPT !.first = first, !.second = second,
                    !.ret = IF first = "Intersection" \/ second = "Intersection" THEN "False"
                            ELSE IF second = "GeometryError" THEN "GeometryError"
                            ELSE "joined"]

\* edge.py:240-241  "except GeometryError": the sweep with BruteSweepline
SweepAgain(checked, segments, first) ==
    Swept(checked, first,
          IF first = "GeometryError" THEN sweep(FALSE, segments, checked.at) ELSE "none")

\* edge.py:205-244  the PmtError, the test of the fans and the sweep
Checked(checked, segments) ==
    IF checked.frame.uvedge_b \notin PairMembers(checked.merged_uvedge_pairs)
    THEN [checked EXCEPT !.ret = "PmtError"]
    ELSE IF ~IncidenceFits(checked.frame, checked.phantoms, segments,
                           PairMembers(checked.merged_uvedge_pairs), checked.at)
    THEN checked
    ELSE SweepAgain(checked, segments, sweep(checked.quick, segments, checked.at))

\* edge.py:208-210  boundary_other, chained with island_a.boundary
Paired(frame, at, ph, pairs) ==
    Checked([ frame |-> frame, at |-> at, phantoms |-> ph.tree,
              is_merged_mine |-> ph.is_merged_mine, passed |-> ph.passed,
              merged_uvedge_pairs |-> pairs,
              quick |-> has_safe_geometry[frame.island_a] /\ has_safe_geometry[frame.island_b],
              first |-> "none", second |-> "none", ret |-> "False" ],
            JoinSegments(frame, ph.tree, PairMembers(pairs), at))

\* edge.py:192-203  merged_uvedge_pairs
Merged(frame, at, ph) == Paired(frame, at, ph, MergedPairs(frame, ph))

\* edge.py:151-190  phantoms
Placed(frame, at) == Merged(frame, at, JoinPhantoms(frame, at))

\* util.py:73-106  cage_fit(points, aspect)[1] > limit, for points that span a
\* box of integer width and height and a square page (aspect 1). cage_fit
\* returns the side of a square around the points turned by some angle; such
\* a square has a diagonal not shorter than the longer side of the box, and a
\* side not longer than it for the angles of the hull's edges along an axis.
\* With integer sides and limit 2 the two bounds decide the comparison.
cage_fit_exceeds(width, height, limit) == Max(width, height) * Max(width, height) > 2 * limit * limit

Least(S) == CHOOSE x \in S : \A y \in S : x <= y
Greatest(S) == CHOOSE x \in S : \A y \in S : y <= x

\* edge.py:154-164  "check the size of the resulting island"
TooLarge(bbox_width, bbox_height) ==
    /\ page_size # <<>>
    /\ \/ Min(bbox_width, bbox_height) * Min(bbox_width, bbox_height)
            > page_size[1] * page_size[1] + page_size[2] * page_size[2]
       \/ /\ bbox_width > page_size[1] \/ bbox_height > page_size[2]
          /\ bbox_height > page_size[1] \/ bbox_width > page_size[2]
          /\ cage_fit_exceeds(bbox_width, bbox_height, page_size[2])

\* edge.py:155-164  xs and ys are the coordinates of the points
SizedBy(frame, at, xs, ys) ==
    IF TooLarge(Greatest(xs) - Least(xs), Greatest(ys) - Least(ys))
    THEN [ret |-> "False", first |-> "none", second |-> "none", frame |-> frame, at |-> at]
    ELSE Placed(frame, at)

\* edge.py:151-164  the points of island_a and of the phantoms
Sized(frame, at) ==
    SizedBy(frame, at,
            {at[vertices[l]][1] : l \in Range(island_loops(frame.island_a))}
                \cup {at[0 - vertices[l]][1] : l \in Range(island_loops(frame.island_b))},
            {at[vertices[l]][2] : l \in Range(island_loops(frame.island_a))}
                \cup {at[0 - vertices[l]][2] : l \in Range(island_loops(frame.island_b))})

\* edge.py:131-244  ret is "False", "joined" (island_b is returned) or the
\* exception that leaves join_island; first and second are the outcomes of
\* the two calls of sweep ("none" if the call is not reached)
join_island(uvedge_a0, uvedge_b0) ==
    IF island_of(uvedge_a0) = island_of(uvedge_b0)
    THEN [ret |-> "False", first |-> "none", second |-> "none"]
    ELSE Sized(JoinFrame(uvedge_a0, uvedge_b0), PhantomPositions(JoinFrame(uvedge_a0, uvedge_b0)))

\* the UVVertex behind a reference once the phantoms have become real
Settled(r) == IF r < 0 THEN 0 - r ELSE r

\* edge.py:239-285  the state after a successful join
Joined(j) ==
    LET a == j.frame.island_a
        b == j.frame.island_b
        tree == j.phantoms
        loops_a == Range(island_loops(a))
        loops_b == Range(island_loops(b))
        merged_uvedges == PairMembers(j.merged_uvedge_pairs)
        c == [v \in Loops |-> IF (0 - v) \in Image(tree) THEN j.at[0 - v] ELSE co[v]]
        va == [l \in Loops |->
                  IF l \in loops_b THEN Settled(tree[uvedge_va[l]])
                  ELSE IF j.is_merged_mine /\ l \in loops_a THEN get(tree, uvedge_va[l])
                  ELSE uvedge_va[l]]
        vb == [l \in Loops |->
                  IF l \in loops_b THEN Settled(tree[uvedge_vb[l]])
                  ELSE IF j.is_merged_mine /\ l \in loops_a THEN get(tree, uvedge_vb[l])
                  ELSE uvedge_vb[l]]
        upd == [l \in loops_b |-> update(va[l], vb[l], c)]
        last(e) == CHOOSE k \in 1..Len(j.merged_uvedge_pairs) :
                       /\ loop_edge(j.merged_uvedge_pairs[k][1]) = e
                       /\ \A n \in (k + 1)..Len(j.merged_uvedge_pairs) :
                              loop_edge(j.merged_uvedge_pairs[n][1]) # e
    IN [ is_main_cut |-> [e \in Edges |-> is_main_cut[e] /\ e \notin {loop_edge(l) : l \in merged_uvedges}],
         main_faces |-> [e \in Edges |->
                            IF e \in {loop_edge(p[1]) : p \in Range(j.merged_uvedge_pairs)}
                            THEN j.merged_uvedge_pairs[last(e)] ELSE main_faces[e]],
         co |-> c,
         vertices |-> [l \in Loops |-> IF l \in loops_b THEN Settled(tree[vertices[l]]) ELSE vertices[l]],
         uvedge_va |-> va,
         uvedge_vb |-> vb,
         uvedge_min |-> [l \in Loops |-> IF l \in loops_b THEN upd[l][1] ELSE uvedge_min[l]],
         uvedge_max |-> [l \in Loops |-> IF l \in loops_b THEN upd[l][2] ELSE uvedge_max[l]],
         uvedge_bottom |-> [l \in Loops |-> IF l \in loops_b THEN upd[l][3] ELSE uvedge_bottom[l]],
         uvedge_top |-> [l \in Loops |-> IF l \in loops_b THEN upd[l][4] ELSE uvedge_top[l]],
         uvface_island |-> [f \in Faces |-> IF f \in Range(faces[b]) THEN a ELSE uvface_island[f]],
         \* edge.py:268  (the test of edge.py:271 looks for loops among the
         \* UVVertex keys of phantoms and finds none, so that the UVFaces of
         \* island_a keep their vertices)
         uvface_vertices |-> [l \in Loops |-> IF l \in loops_b THEN Settled(tree[uvface_vertices[l]])
                                              ELSE uvface_vertices[l]],
         flipped |-> [f \in Faces |-> IF f \in Range(faces[b]) THEN flipped[f] # j.frame.flipped
                                      ELSE flipped[f]],
         faces |-> [faces EXCEPT ![a] = faces[a] \o faces[b]],
         boundary |-> [boundary EXCEPT ![a] = SelectSeq(boundary[a] \o boundary[b],
                                                         LAMBDA l : l \notin merged_uvedges)],
         has_safe_geometry |-> [has_safe_geometry EXCEPT ![a] =
                                   IF j.first = "ok" THEN has_safe_geometry[a] /\ has_safe_geometry[b]
                                   ELSE FALSE] ]

joinVars == <<is_main_cut, main_faces, co, vertices, uvedge_va, uvedge_vb, uvedge_min, uvedge_max,
              uvedge_bottom, uvedge_top, uvface_island, flipped, uvface_vertices, faces, boundary,
              has_safe_geometry>>

(***************************************************************************)
(* generate_cuts: the pass over the sorted edges (mesh.py:121-127)         *)
(***************************************************************************)
\* mesh.py:122-123  an edge whose vector is null is passed over
SkipEdge ==
    /\ cpc = "join" /\ edge_i <= Len(edges)
    /\ AxisLength(vector(edges[edge_i])) = 0
    /\ edge_i' = edge_i + 1
    /\ UNCHANGED <<inputVars, angle, priority, uvedges, island_set, edges, old_island, mesh_islands,
                   join_calls, cpc, is_inside_out, joinVars, linkVars, packVars, coalescing, sweeping, exporting>>

\* what it would do if generate_cuts left the absorbed island in its set
CommitKeepsIsland(island_b, new) ==
    /\ is_main_cut' = new.is_main_cut /\ main_faces' = new.main_faces
    /\ co' = new.co /\ vertices' = new.vertices
    /\ uvedge_va' = new.uvedge_va /\ uvedge_vb' = new.uvedge_vb
    /\ uvedge_min' = new.uvedge_min /\ uvedge_max' = new.uvedge_max
    /\ uvedge_bottom' = new.uvedge_bottom /\ uvedge_top' = new.uvedge_top
    /\ uvface_island' = new.uvface_island /\ flipped' = new.flipped
    /\ uvface_vertices' = new.uvface_vertices
    /\ faces' = new.faces /\ boundary' = new.boundary
    /\ has_safe_geometry' = new.has_safe_geometry
    /\ old_island' = island_b
    /\ island_set' = island_set
    /\ edge_i' = edge_i + 1
    /\ cpc' = cpc

\* edge.py:246-285, mesh.py:124-127  island_b has been absorbed and is
\* taken from the set of islands
Commit(island_b, new) ==
    /\ is_main_cut' = new.is_main_cut /\ main_faces' = new.main_faces
    /\ co' = new.co /\ vertices' = new.vertices
    /\ uvedge_va' = new.uvedge_va /\ uvedge_vb' = new.uvedge_vb
    /\ uvedge_min' = new.uvedge_min /\ uvedge_max' = new.uvedge_max
    /\ uvedge_bottom' = new.uvedge_bottom /\ uvedge_top' = new.uvedge_top
    /\ uvface_island' = new.uvface_island /\ flipped' = new.flipped
    /\ uvface_vertices' = new.uvface_vertices
    /\ faces' = new.faces /\ boundary' = new.boundary
    /\ has_safe_geometry' = new.has_safe_geometry
    /\ old_island' = island_b
    /\ island_set' = island_set \ {island_b}
    /\ edge_i' = edge_i + 1
    /\ cpc' = cpc

\* what it would do if join_island marked the merged edges (edge.py:246-248)
\* before its checks
OutcomeMarkedEarly(j) ==
    IF j.ret = "joined" THEN Commit(j.frame.island_b, Joined(j))
    ELSE IF j.ret = "False"
    THEN /\ old_island' = 0
         /\ edge_i' = edge_i + 1
         /\ is_main_cut' = [e \in Edges |->
                /\ is_main_cut[e]
                /\ \/ "merged_uvedge_pairs" \notin DOMAIN j
                   \/ e \notin {loop_edge(l) : l \in PairMembers(j.merged_uvedge_pairs)}]
         /\ UNCHANGED <<main_faces, co, vertices, uvedgeVars, uvfaceVars, faces, boundary,
                        has_safe_geometry, island_set, cpc>>
    ELSE /\ cpc' = j.ret
         /\ UNCHANGED <<joinVars, island_set, old_island, edge_i>>

\* mesh.py:124-127  what generate_cuts does with the result j of join_island
Outcome(j) ==
    IF j.ret = "joined" THEN Commit(j.frame.island_b, Joined(j))
    ELSE IF j.ret = "False"
    THEN /\ old_island' = 0
         /\ edge_i' = edge_i + 1
         /\ UNCHANGED <<joinVars, island_set, cpc>>
    ELSE /\ cpc' = j.ret
         /\ UNCHANGED <<joinVars, island_set, old_island, edge_i>>

\* mesh.py:124-127  old_island is 0 for False; an exception ends generate_cuts
JoinIsland ==
    /\ cpc = "join" /\ edge_i <= Len(edges)
    /\ AxisLength(vector(edges[edge_i])) # 0
    /\ join_calls' = Append(join_calls, edges[edge_i])
    /\ Outcome(join_island(main_faces[edges[edge_i]][1], main_faces[edges[edge_i]][2]))
    /\ UNCHANGED <<inputVars, angle, priority, uvedges, edges, mesh_islands, is_inside_out,
                   linkVars, packVars, coalescing, sweeping, exporting>>

(***************************************************************************)
(* generate_cuts: after the pass (mesh.py:129-195)                         *)
(***************************************************************************)
\* the UVEdges of an edge left in the order in which the islands gave them
ReorderedKept(e) == uvedges[e]

\* mesh.py:136-144  uvedges[:2] follow main_faces; 0 fills a missing slot
Reordered(e) ==
    LET slot(n) == IF \E k \in 1..Len(uvedges[e]) : uvedges[e][k] = main_faces[e][n]
                   THEN main_faces[e][n] ELSE 0
    IN IF main_faces[e] = <<>> THEN uvedges[e]
       ELSE <<slot(1), IF main_faces[e][2] = main_faces[e][1] THEN 0 ELSE slot(2)>>
            \o SelectSeq(uvedges[e], LAMBDA l : l \notin Range(main_faces[e]))

\* what is_cut would answer if it looked at the first main face only
is_cut_first_face(e, face) ==
    IF main_faces[e] # <<>> /\ face = loop_face(main_faces[e][1])
    THEN is_main_cut[e] ELSE TRUE

\* edge.py:349-357
is_cut(e, face) ==
    IF main_faces[e] # <<>> /\ face \in {loop_face(main_faces[e][1]), loop_face(main_faces[e][2])}
    THEN is_main_cut[e] ELSE TRUE

RECURSIVE SumOver(_, _)
SumOver(S, f) ==
    IF S = {} THEN 0
    ELSE LET x == CHOOSE y \in S : TRUE IN f[x] + SumOver(S \ {x}, f)

\* mesh.py:148-150  uvedge is the variable of the enclosing function, left
\* over from the loop that ran last
Balance(i, uvedge, angles) ==
    LET island_edges == {loop_edge(l) : l \in Range(island_loops(i))}
    IN SumOver({e \in island_edges : ~is_cut(e, loop_face(uvedge))},
               [e \in island_edges |-> IF angles[e] > 0 THEN 1 ELSE -1])

\* the UVVertex a uvedge starts from when no face is taken to be flipped
StartVertexUnflipped(l) == uvedge_va[l]

\* the UVVertex a boundary uvedge runs to, and the one it starts from
\* (mesh.py:158, 168)
EndVertex(l) == IF flipped[loop_face(l)] THEN uvedge_va[l] ELSE uvedge_vb[l]
StartVertex(l) == IF flipped[loop_face(l)] THEN uvedge_vb[l] ELSE uvedge_va[l]

\* mesh.py:156-165  neighbor_lookup and the keys of conflicts, in dict order
Enders(i, v) == SelectSeq(boundary[i], LAMBDA l : EndVertex(l) = v)
Starters(i, v) == SelectSeq(boundary[i], LAMBDA l : StartVertex(l) = v)

RECURSIVE Unique(_)
\* the elements of s, each at its first place
Unique(s) ==
    IF s = <<>> THEN <<>>
    ELSE LET front == Unique(SubSeq(s, 1, Len(s) - 1))
         IN IF s[Len(s)] \in Range(front) THEN front ELSE Append(front, s[Len(s)])

ConflictVertices(i) ==
    LET b == boundary[i]
        seconds == SelectSeq([k \in 1..Len(b) |-> k],
                             LAMBDA k : \E n \in 1..(k - 1) : EndVertex(b[n]) = EndVertex(b[k]))
    IN Unique([k \in 1..Len(seconds) |-> EndVertex(b[seconds[k]])])

\* mesh.py:180-187
is_inwards(uvedge, uvvertex) == flipped[loop_face(uvedge)] = (uvedge_va[uvedge] = uvvertex)
SortVector(uvedge, uvvertex) ==
    IF is_inwards(uvedge, uvvertex)
    THEN Sub(co[uvedge_va[uvedge]], co[uvedge_vb[uvedge]])
    ELSE Sub(co[uvedge_vb[uvedge]], co[uvedge_va[uvedge]])

\* vector.x / vector.length of v is less than that of w
CosineLess(v, w) ==
    LET sq(x) == IF x < 0 THEN 0 - x * x ELSE x * x
    IN sq(v[1]) * length_squared(w) < sq(w[1]) * length_squared(v)

\* mesh.py:177-178  direction_to_float(v) < direction_to_float(w)
DirectionLess(v, w) ==
    IF v[2] > 0 /\ w[2] > 0 THEN CosineLess(w, v)
    ELSE IF ~(v[2] > 0) /\ ~(w[2] > 0) THEN CosineLess(v, w)
    ELSE ~(v[2] > 0)

RECURSIVE InsertByDirection(_, _, _)
InsertByDirection(x, s, uvvertex) ==
    IF s = <<>> THEN <<x>>
    ELSE IF DirectionLess(SortVector(x, uvvertex), SortVector(Head(s), uvvertex))
    THEN <<x>> \o s
    ELSE <<Head(s)>> \o InsertByDirection(x, Tail(s), uvvertex)

RECURSIVE SortedByDirection(_, _)
\* mesh.py:189  uvedges.sort(key=uvedge_sortkey), a stable sort
SortedByDirection(s, uvvertex) ==
    IF s = <<>> THEN <<>>
    ELSE InsertByDirection(s[Len(s)], SortedByDirection(SubSeq(s, 1, Len(s) - 1), uvvertex), uvvertex)

\* mesh.py:167-174  the assignments <<attribute, uvedge, value>> of the second
\* loop over the boundary, in order
PlainLinks(i) ==
    LET conflicts == Range(ConflictVertices(i))
        plain == SelectSeq(boundary[i], LAMBDA l : StartVertex(l) \notin conflicts)
        right(l) == IF Enders(i, StartVertex(l)) = <<>> THEN l ELSE Enders(i, StartVertex(l))[1]
    IN Flatten([k \in 1..Len(plain) |->
                   << <<"neighbor_right", plain[k], right(plain[k])>>,
                      <<"neighbor_left", right(plain[k]), plain[k]>> >>])

\* the assignments for one conflict vertex when the sorted uvedges are always
\* paired as if the first one pointed outwards
ConflictLinksOutwards(i, uvvertex) ==
    LET sorted == SortedByDirection(Enders(i, uvvertex) \o Starters(i, uvvertex), uvvertex)
        n == Len(sorted)
        right(k) == IF k = 1 THEN sorted[n] ELSE sorted[2 * k - 2]
    IN Flatten([k \in 1..(n \div 2) |->
                   << <<"neighbor_right", sorted[2 * k - 1], right(k)>>,
                      <<"neighbor_left", right(k), sorted[2 * k - 1]>> >>])

\* mesh.py:189-194  the assignments made for one conflict vertex
ConflictLinks(i, uvvertex) ==
    LET sorted == SortedByDirection(Enders(i, uvvertex) \o Starters(i, uvvertex), uvvertex)
        n == Len(sorted)
        right(k) == IF is_inwards(sorted[1], uvvertex) THEN sorted[2 * k - 1]
                    ELSE IF k = 1 THEN sorted[n] ELSE sorted[2 * k - 2]
        left(k) == IF is_inwards(sorted[1], uvvertex) THEN sorted[2 * k] ELSE sorted[2 * k - 1]
    IN Flatten([k \in 1..(n \div 2) |->
                   << <<"neighbor_right", left(k), right(k)>>,
                      <<"neighbor_left", right(k), left(k)>> >>])

\* mesh.py:154-194  all assignments for the boundary of island i
Links(i) ==
    LET cv == ConflictVertices(i)
    IN PlainLinks(i) \o Flatten([k \in 1..Len(cv) |-> ConflictLinks(i, cv[k])])

RECURSIVE Assigned(_, _, _)
\* attribute after the assignments ops, made in order
Assigned(attribute, ops, f) ==
    IF ops = <<>> THEN f
    ELSE Assigned(attribute, Tail(ops),
                  IF Head(ops)[1] = attribute THEN [f EXCEPT ![Head(ops)[2]] = Head(ops)[3]] ELSE f)

\* a uvedge of a conflict has no length: direction_to_float divides by zero
NullDirection(i) ==
    \E k \in 1..Len(ConflictVertices(i)) :
        \E l \in Range(Enders(i, ConflictVertices(i)[k])) \cup Range(Starters(i, ConflictVertices(i)[k])) :
            co[uvedge_va[l]] = co[uvedge_vb[l]]

\* mesh.py:129-195
Finish ==
    /\ cpc = "join" /\ edge_i > Len(edges)
    /\ LET sorted == SortedBy(SelectSeq2(island_order, island_set),
                              [i \in island_set |-> 0 - Len(faces[i])])
           with_faces == SelectSeq(edge_order, LAMBDA e : main_faces[e] # <<>>)
           all_loops == Flatten([k \in 1..Len(island_order) |-> face_loops(island_order[k])])
           angles == [e \in Edges |->
                         IF /\ main_faces[e] # <<>>
                            /\ \/ flipped[loop_face(main_faces[e][1])]
                               \/ flipped[loop_face(main_faces[e][2])]
                         THEN calculate_angle(e, main_faces[e]) ELSE angle[e]]
           \* the value of the variable uvedge when island number k is examined
           uvedge(k) == IF k > 1 THEN boundary[sorted[k - 1]][Len(boundary[sorted[k - 1]])]
                        ELSE IF with_faces # <<>>
                        THEN uvedges[with_faces[Len(with_faces)]][Len(uvedges[with_faces[Len(with_faces)]])]
                        ELSE all_loops[Len(all_loops)]
           ops == Flatten([k \in 1..Len(sorted) |-> Links(sorted[k])])
       IN /\ mesh_islands' = sorted
          /\ angle' = angles
          /\ uvedges' = [e \in Edges |-> Reordered(e)]
          /\ is_inside_out' = [i \in Faces |->
                IF \E k \in 1..Len(sorted) :
                       /\ sorted[k] = i
                       /\ \E f \in Range(faces[i]) : flipped[f]
                       /\ Balance(i, uvedge(k), angles) < 0
                THEN TRUE ELSE is_inside_out[i]]
          /\ IF \E i \in island_set : NullDirection(i)
             THEN cpc' = "ZeroDivisionError" /\ UNCHANGED linkVars
             ELSE /\ neighbor_right' = Assigned("neighbor_right", ops, neighbor_right)
                  /\ neighbor_left' = Assigned("neighbor_left", ops, neighbor_left)
                  /\ cpc' = "done"
    /\ UNCHANGED <<inputVars, main_faces, priority, is_main_cut, island_set, edges, edge_i, old_island,
                   join_calls, faces, boundary, has_safe_geometry, vertices, uvfaceVars, uvedgeVars, co,
                   packVars, coalescing, sweeping, exporting>>

CutInit == CutInitOf(1..Len(Meshes), MaxSeams)
CutNext == GenerateCutsStart \/ SkipEdge \/ JoinIsland \/ Finish
SpecCut == CutInit /\ [][CutNext]_vars

(***************************************************************************)
(* Cutting: claims                                                         *)
(***************************************************************************)
\* generate_cuts is about to call join_island for edges[edge_i]
Pending == cpc = "join" /\ edge_i <= Len(edges) /\ AxisLength(vector(edges[edge_i])) # 0

\* the call of join_island for the edge at position k of the sorted list
Attempt(k) == join_island(main_faces[edges[k]][1], main_faces[edges[k]][2])

\* C6: a call of join_island that returns False (same island, size limit,
\* fans, intersection) leaves the maps vertices, edges and faces of the
\* islands, their boundary and has_safe_geometry, every UVVertex.co, every
\* UVFace.flipped and every Edge.is_main_cut and main_faces as they were.
C6_RejectedJoinChangesNothing ==
    [][(Pending /\ Attempt(edge_i).ret = "False") => UNCHANGED joinVars]_vars

\* the last call was for the edge before edge_i, the sweep met an
\* intersection and the call returned False
C6_Witness ==
    /\ cpc = "join" /\ edge_i > 1 /\ old_island = 0
    /\ join_calls # <<>> /\ join_calls[Len(join_calls)] = edges[edge_i - 1]
    /\ Attempt(edge_i - 1).first = "Intersection"

\* what C7 says of one call of join_island
C7_Caught(j) ==
    /\ j.ret \in {"False", "joined", "PmtError"}
    /\ j.first = "GeometryError" => j.second \in {"ok", "Intersection"}
    /\ j.second # "GeometryError"
    /\ ("quick" \in DOMAIN j /\ ~j.quick) => j.first # "GeometryError"

\* C7: join_island returns False or the absorbed island or raises PmtError,
\* GeometryError and Intersection never leave it; after a GeometryError of
\* the sweep with QuickSweepline the sweep with BruteSweepline is run, and a
\* sweep with BruteSweepline never raises GeometryError.
C7_SweepErrorsStayInside ==
    /\ cpc \notin {"GeometryError", "Intersection"}
    /\ Pending => C7_Caught(Attempt(edge_i))

\* generate_cuts goes on after a join in which the quick sweep raised
\* GeometryError and the exhaustive sweep found no intersection
C7_Witness ==
    /\ cpc = "join" /\ old_island # 0
    /\ ~has_safe_geometry[uvface_island[faces[old_island][1]]]

RECURSIVE Follow(_, _, _)
\* the uvedge reached from uvedge by n links (0 is None)
Follow(link, uvedge, n) ==
    IF n = 0 \/ uvedge = 0 THEN uvedge ELSE Follow(link, link[uvedge], n - 1)

\* neighbor_left undoes neighbor_right and the other way round
Inverse(uvedge) ==
    /\ neighbor_right[uvedge] # 0 /\ neighbor_left[neighbor_right[uvedge]] = uvedge
    /\ neighbor_left[uvedge] # 0 /\ neighbor_right[neighbor_left[uvedge]] = uvedge

\* C8 as claimed: after generate_cuts neighbor_right leads from every uvedge
\* of island.boundary through all of the boundary, each uvedge once, and
\* back after len(island.boundary) steps; neighbor_left is its inverse.
C8_BoundaryIsOneCycle ==
    cpc = "done" =>
        \A i \in island_set : \A uvedge \in Range(boundary[i]) :
            /\ Follow(neighbor_right, uvedge, Len(boundary[i])) = uvedge
            /\ {Follow(neighbor_right, uvedge, n) : n \in 0..(Len(boundary[i]) - 1)} = Range(boundary[i])
            /\ Inverse(uvedge)

\* C8 as amended: after generate_cuts neighbor_right maps island.boundary
\* onto itself and neighbor_left is its inverse, so that following
\* neighbor_right from a uvedge leads back to it after at most
\* len(island.boundary) steps, through uvedges of that boundary only.
C8_BoundaryIsCycles ==
    cpc = "done" =>
        \A i \in island_set : \A uvedge \in Range(boundary[i]) :
            /\ neighbor_right[uvedge] \in Range(boundary[i])
            /\ neighbor_left[uvedge] \in Range(boundary[i])
            /\ Inverse(uvedge)
            /\ \E n \in 1..Len(boundary[i]) : Follow(neighbor_right, uvedge, n) = uvedge

\* an island with a UVVertex where four uvedges of the boundary meet, linked
\* into more than one cycle
C8_Witness ==
    /\ cpc = "done"
    /\ \E i \in island_set :
           /\ ConflictVertices(i) # <<>>
           /\ \E uvedge \in Range(boundary[i]) :
                  \E n \in 1..(Len(boundary[i]) - 1) : Follow(neighbor_right, uvedge, n) = uvedge

\* C10: join_island is called at most once for an edge (so never again
\* after a rejection), in non-decreasing order of Edge.priority, and never
\* for an edge with force_cut, without main faces or of length zero.
C10_SingleGreedyPass ==
    /\ \A k, n \in 1..Len(join_calls) : join_calls[k] = join_calls[n] => k = n
    /\ \A k \in 1..(Len(join_calls) - 1) : priority[join_calls[k]] <= priority[join_calls[k + 1]]
    /\ \A k \in 1..Len(join_calls) :
           /\ join_calls[k] \notin force_cut
           /\ main_faces[join_calls[k]] # <<>>
           /\ AxisLength(vector(join_calls[k])) # 0

\* the pass is over: an edge between two faces is a seam, the others were
\* tried once each, in an order that the priorities decide, and the last
\* call was rejected
C10_Witness ==
    /\ cpc = "done" /\ old_island = 0
    /\ \E e \in force_cut : main_faces[e] # <<>>
    /\ Len(join_calls) = Len(edges) /\ Len(join_calls) > 1
    /\ \E k \in 1..(Len(join_calls) - 1) : priority[join_calls[k]] < priority[join_calls[k + 1]]

\* the islands of the set partition the faces, and UVFace.island agrees
C11_Partition ==
    \A f \in Faces :
        /\ Cardinality({i \in island_set : f \in Range(faces[i])}) = 1
        /\ uvface_island[f] \in island_set
        /\ f \in Range(faces[uvface_island[f]])
        /\ Cardinality({k \in 1..Len(faces[uvface_island[f]]) : faces[uvface_island[f]][k] = f}) = 1

\* C11: once generate_cuts has made its islands, every face is in the faces
\* of exactly one island of the set, the island its UVFace.island points to;
\* the set starts with one island per face, never gains an island, and
\* shrinks by one with every call of join_island that succeeds and by
\* nothing otherwise, so that its size is the number of faces minus the
\* number of successful joins.
C11_IslandsPartitionFaces ==
    /\ [](cpc \notin {"idle", "start"} => C11_Partition)
    /\ []((cpc = "join" /\ join_calls = <<>>) => Cardinality(island_set) = Cardinality(Faces))
    /\ [][cpc = "join" =>
            /\ island_set' \subseteq island_set
            /\ Cardinality(island_set') = Cardinality(island_set)
                   - (IF Pending /\ Attempt(edge_i).ret = "joined" THEN 1 ELSE 0)]_vars

\* the pass is over, some joins succeeded and some were rejected: an island
\* of three or more faces and at least one other island
C11_Witness ==
    /\ cpc = "done" /\ Cardinality(island_set) >= 2
    /\ \E i \in island_set : Len(faces[i]) >= 3
    /\ \E i \in Faces \ island_set : uvface_island[i] # i

\* C12: on a mesh whose edges have at most two incident faces, during and
\* after generate_cuts, for every island of the set and every UVEdge of it,
\* Edge.is_cut of the UVEdge's face is true if and only if the UVEdge is in
\* island.boundary.
C12_CutIffOnBoundary ==
    (cpc \in {"join", "done"} /\ \A e \in Edges : Len(edge_link_loops(e)) <= 2) =>
        \A i \in island_set : \A uvedge \in Range(island_loops(i)) :
            is_cut(loop_edge(uvedge), loop_face(uvedge)) <=> uvedge \in Range(boundary[i])

\* generate_cuts is over on such a mesh: an island has joined uvedges, off
\* its boundary, and uvedges of an edge between two of its own faces that
\* was not joined, on its boundary
C12_Witness ==
    /\ cpc = "done" /\ \A e \in Edges : Len(edge_link_loops(e)) <= 2
    /\ \E i \in island_set :
           /\ \E uvedge \in Range(island_loops(i)) : uvedge \notin Range(boundary[i])
           /\ \E e \in Edges :
                  /\ main_faces[e] # <<>> /\ is_main_cut[e]
                  /\ island_of(main_faces[e][1]) = i /\ island_of(main_faces[e][2]) = i

\* C13 as claimed: after generate_cuts every Edge with force_cut has
\* is_main_cut true, and its UVEdges are on the boundary of their islands.
C13_SeamsStayCut ==
    cpc = "done" =>
        \A e \in force_cut :
            /\ is_main_cut[e]
            /\ \A uvedge \in Range(edge_link_loops(e)) :
                   uvedge \in Range(boundary[island_of(uvedge)])

\* generate_cuts is over and a seam between two faces has been joined: the
\* islands of its faces were joined along another edge, and the UVEdges of the
\* seam fitted as well (edge.py:192-203, 246-248)
C13_Witness ==
    /\ cpc = "done"
    /\ \E e \in force_cut :
           /\ e \notin Range(join_calls)
           /\ main_faces[e] # <<>> /\ ~is_main_cut[e]
           /\ \A uvedge \in Range(edge_link_loops(e)) :
                  uvedge \notin Range(boundary[island_of(uvedge)])

\* the island that holds the faces of the absorbed island b after the step
C14_Survivor(b) == uvface_island'[faces[b][1]]

\* C14: a call of join_island for two UVEdges of one island returns False;
\* when a call succeeds, the island it returns is the island of one of the
\* two UVEdges and the survivor is the island of the other, the returned
\* island had at most as many faces as the survivor before the call, and
\* after it the survivor has the faces of both.
C14_LargerIslandAbsorbs ==
    [][Pending =>
          LET a0 == island_of(main_faces[edges[edge_i]][1])
              b0 == island_of(main_faces[edges[edge_i]][2])
          IN /\ a0 = b0 => (old_island' = 0 /\ Attempt(edge_i).ret = "False")
             /\ Attempt(edge_i).ret = "joined" <=> old_island' # 0
             /\ old_island' # 0 =>
                    /\ {old_island', C14_Survivor(old_island')} = {a0, b0}
                    /\ a0 # b0
                    /\ Len(faces[old_island']) <= Len(faces[C14_Survivor(old_island')])
                    /\ Len(faces'[C14_Survivor(old_island')])
                           = Len(faces[C14_Survivor(old_island')]) + Len(faces[old_island'])]_vars

\* the last call joined two islands of different sizes, the island of the
\* first UVEdge being the smaller one, of two faces or more, and so the one
\* absorbed
C14_Witness ==
    /\ cpc = "join" /\ old_island # 0 /\ join_calls # <<>>
    /\ LET e == join_calls[Len(join_calls)]
           a == uvface_island[faces[old_island][1]]
       IN /\ loop_face(choose_main_faces(e)[1]) \in Range(faces[old_island])
          /\ Len(faces[old_island]) >= 2
          /\ Len(faces[a]) > 2 * Len(faces[old_island])

\* what C15 says of one call of join_island: if it joins, the sweep with
\* BruteSweepline over its segments ends without an exception
C15_BruteAccepts(j) ==
    j.ret = "joined" =>
        sweep(FALSE, JoinSegments(j.frame, j.phantoms, PairMembers(j.merged_uvedge_pairs), j.at),
              j.at) = "ok"

\* C15: whenever join_island accepts a join, a sweep with BruteSweepline
\* over the same segments (the phantoms of island_b's boundary that is not
\* merged, and island_a.boundary) raises no Intersection: what the sweep
\* with QuickSweepline lets pass without GeometryError, the exhaustive
\* sweep lets pass as well.
C15_ExhaustiveSweepAgrees ==
    Pending => C15_BruteAccepts(Attempt(edge_i))

\* the last call joined two islands after a sweep with QuickSweepline that
\* raised nothing, and the island has six boundary uvedges or more
C15_Witness ==
    /\ cpc = "join" /\ old_island # 0
    /\ has_safe_geometry[uvface_island[faces[old_island][1]]]
    /\ Len(faces[uvface_island[faces[old_island][1]]]) >= 3
    /\ Len(boundary[uvface_island[faces[old_island][1]]]) >= 6

\* the sweep with QuickSweepline over the segments of the call j ends
\* without GeometryError
C20_QuickSweepPasses(j) ==
    sweep(TRUE, JoinSegments(j.frame, j.phantoms, PairMembers(j.merged_uvedge_pairs), j.at),
          j.at) # "GeometryError"

\* what C20 says of one call of join_island
C20_Call(j) ==
    IF j.ret = "joined"
    THEN /\ has_safe_geometry'[j.frame.island_a] <=>
                /\ has_safe_geometry[j.frame.island_a]
                /\ has_safe_geometry[j.frame.island_b]
                /\ C20_QuickSweepPasses(j)
         /\ j.frame.island_a = C14_Survivor(j.frame.island_b)
         /\ j.frame.island_b = old_island'
    ELSE UNCHANGED has_safe_geometry

\* C20: has_safe_geometry is monotone: every island starts with it true, no
\* step sets it back to true, a call of join_island that does not join
\* leaves it as it was, and after a call that joins the flag of the
\* surviving island is true iff the flags of both islands were true before
\* the call and the sweep with QuickSweepline ended without GeometryError.
C20_SafeGeometryMonotone ==
    /\ []((cpc = "join" /\ join_calls = <<>>) => \A i \in island_set : has_safe_geometry[i])
    /\ [][\A i \in DOMAIN has_safe_geometry :
              has_safe_geometry'[i] => has_safe_geometry[i]]_vars
    /\ [][Pending => C20_Call(Attempt(edge_i))]_vars

\* the last call joined two islands and the survivor is without safe
\* geometry, though the island it absorbed, one of two faces or more, had it;
\* another island of the set still has it
C20_Witness ==
    /\ cpc = "join" /\ old_island # 0
    /\ ~has_safe_geometry[uvface_island[faces[old_island][1]]]
    /\ has_safe_geometry[old_island] /\ Len(faces[old_island]) >= 2
    /\ \E k \in island_set : has_safe_geometry[k]

(***************************************************************************)
(* The coalescing loop of join_island (edge.py:166-190) on its own: the     *)
(* UVVertices around two mesh vertices, at positions along a line. Those    *)
(* of island_a are numbered from 1, those of island_b from 11. Positions    *)
(* are counted in thousandths of the unit of length, whose square is        *)
(* epsilon: with an edge of length 2 vertices one thousandth apart are      *)
(* close and vertices two thousandths apart are not.                        *)
(***************************************************************************)
MaxMine == 3
MaxTheirs == 2
MaxSpan == 2

\* the orders in which a set may be iterated
Orders(S) == {s \in [1..Cardinality(S) -> S] : \A i, k \in 1..Cardinality(S) : s[i] = s[k] => i = k}

\* the UVVertices of the two islands at the first mesh vertex, and the one
\* more of each at the second
Mine(maxMine) == 1..maxMine
Theirs(maxTheirs) == 11..(10 + maxTheirs)

\* edge.py:166  uvedge_a.loop.edge.calc_length()
CoalesceLengths == {1, 2}

\* edge.py:151-175  the state before "for vertex in shared_vertices"
CoalesceInitOf(maxMine, maxTheirs, maxSpan) ==
    /\ coalescing \in
           { [ pc |-> "loop",
               groups |-> << [uvs_a |-> oa, uvs_b |-> ob],
                             [uvs_a |-> <<maxMine + 1>>, uvs_b |-> <<11 + maxTheirs>>] >>,
               at |-> [r \in 1..(maxMine + 1) \cup {0 - b : b \in 11..(11 + maxTheirs)} |->
                          <<IF r \in Mine(maxMine) THEN xa[r]
                            ELSE IF (0 - r) \in Theirs(maxTheirs) THEN xb[0 - r]
                            ELSE IF r > 0 THEN far ELSE 0, 0>>],
               vert |-> [r \in 1..(maxMine + 1) \cup 11..(11 + maxTheirs) |->
                            IF r \in Mine(maxMine) \cup Theirs(maxTheirs) THEN 1 ELSE 2],
               length |-> length,
               limit |-> distance_limit(length, EpsilonInverse),
               tree |-> [b \in 11..(11 + maxTheirs) |-> 0 - b],
               is_merged_mine |-> FALSE,
               passed |-> {} ] :
             oa \in Orders(Mine(maxMine)), ob \in Orders(Theirs(maxTheirs)),
             xa \in [Mine(maxMine) -> 0..maxSpan], xb \in [Theirs(maxTheirs) -> 0..maxSpan],
             far \in {0, 2}, length \in CoalesceLengths }
    /\ PackIdle /\ CutIdle /\ SweepingIdle /\ ExportingIdle

\* edge.py:176-190  one turn of "for vertex in shared_vertices"
CoalesceAfter(st) ==
    coalescing' = [coalescing EXCEPT !.groups = Tail(@),
                                     !.pc = IF Len(coalescing.groups) = 1 THEN "done" ELSE "loop",
                                     !.tree = st.tree, !.is_merged_mine = st.is_merged_mine,
                                     !.passed = st.passed]

CoalesceVertex ==
    /\ coalescing.pc = "loop"
    /\ CoalesceAfter(coalesce_vertex(coalescing.groups[1].uvs_a, coalescing.groups[1].uvs_b,
                                     [ tree |-> coalescing.tree,
                                       is_merged_mine |-> coalescing.is_merged_mine,
                                       passed |-> coalescing.passed ],
                                     coalescing.at, coalescing.limit))
    /\ UNCHANGED <<packVars, cutVars, sweeping, exporting>>

CoalesceInit == CoalesceInitOf(MaxMine, MaxTheirs, MaxSpan)
SpecCoalesce == CoalesceInit /\ [][CoalesceVertex]_vars

\* C9: when the coalescing loop has ended, the two UVVertices of every pair
\* whose distance test passed have the same root in phantoms.
C9_PassedPairsShareRoot ==
    coalescing.pc = "done" =>
        \A p \in coalescing.passed : root_of(p[1], coalescing.tree) = root_of(p[2], coalescing.tree)

\* the loop has ended, UVVertices of island_a were merged with each other,
\* and a UVVertex of island_b passed the test with two of island_a
C9_Witness ==
    /\ coalescing.pc = "done" /\ coalescing.is_merged_mine
    /\ \E p, q \in coalescing.passed : p[2] = q[2] /\ p[1] # q[1] /\ p[2] > 10

\* the UVVertices of island_a and of island_b in the loop
C16_Mine == {r \in DOMAIN coalescing.vert : r <= 10}
C16_Theirs == {r \in DOMAIN coalescing.vert : r > 10}

\* the squared distance of two positions, in squared thousandths, is below
\* length * epsilon: a squared thousandth is epsilon
C16_Below(p, q) == length_squared(Sub(p, q)) < coalescing.length

\* the squared distance of two positions is below length^2 * epsilon^2
C16_BelowSquare(p, q) ==
    length_squared(Sub(p, q)) * EpsilonInverse < coalescing.length * coalescing.length

RECURSIVE C16_Chained(_, _)
\* the UVVertices of island_a reached from those of S by n pairs of one
\* mesh vertex whose squared distance is below length * epsilon
C16_Chained(S, n) ==
    IF n = 0 THEN S
    ELSE C16_Chained(S \cup {y \in C16_Mine : \E x \in S :
                                 /\ coalescing.vert[x] = coalescing.vert[y]
                                 /\ C16_Below(coalescing.at[x], coalescing.at[y])}, n - 1)

\* C16 as claimed: when the loop has ended, a UVVertex of island_b and one
\* of island_a (or two of island_a) of one mesh vertex have the same root
\* exactly when the squared distance of the phantom and the UVVertex (of
\* the two UVVertices) is below edgeLength^2 * epsilon^2.
C16_SquaredThreshold ==
    coalescing.pc = "done" =>
        /\ \A a \in C16_Mine, b \in C16_Theirs :
               coalescing.vert[a] = coalescing.vert[b] =>
                   (root_of(a, coalescing.tree) = root_of(b, coalescing.tree)
                       <=> C16_BelowSquare(coalescing.at[a], coalescing.at[0 - b]))
        /\ \A a1, a2 \in C16_Mine :
               (coalescing.vert[a1] = coalescing.vert[a2] /\ a1 # a2) =>
                   (root_of(a1, coalescing.tree) = root_of(a2, coalescing.tree)
                       <=> C16_BelowSquare(coalescing.at[a1], coalescing.at[a2]))

\* C16 as amended: the limit is edgeLength * epsilon, compared with squared
\* distances. When the loop has ended, the phantom of a UVVertex of island_b
\* has been replaced by a UVVertex of island_a exactly when its squared
\* distance to some UVVertex of island_a of the same mesh vertex is below
\* the limit, and then its root is a UVVertex of that mesh vertex; two
\* UVVertices of island_a of one mesh vertex below the limit have the same
\* root; and UVVertices of island_a have the same root only if a chain of
\* such pairs leads from one to the other.
C16_LengthTimesEpsilon ==
    coalescing.pc = "done" =>
        /\ \A b \in C16_Theirs :
               /\ coalescing.tree[b] > 0 <=>
                      \E a \in C16_Mine : /\ coalescing.vert[a] = coalescing.vert[b]
                                           /\ C16_Below(coalescing.at[a], coalescing.at[0 - b])
               /\ coalescing.tree[b] > 0 => coalescing.vert[coalescing.tree[b]] = coalescing.vert[b]
               /\ coalescing.tree[b] < 0 => coalescing.tree[b] = 0 - b
        /\ \A a1, a2 \in C16_Mine :
               /\ ( /\ coalescing.vert[a1] = coalescing.vert[a2]
                     /\ C16_Below(coalescing.at[a1], coalescing.at[a2]) )
                      => root_of(a1, coalescing.tree) = root_of(a2, coalescing.tree)
               /\ root_of(a1, coalescing.tree) = root_of(a2, coalescing.tree)
                      => a2 \in C16_Chained({a1}, Cardinality(C16_Mine))

\* the loop has ended: a phantom one thousandth from a UVVertex of island_a
\* has been replaced, with an edge of length 2 (the squared distance is
\* below length * epsilon and not below its square), and a phantom two
\* thousandths from the nearest one has not
C16_Witness ==
    /\ coalescing.pc = "done" /\ coalescing.length = 2
    /\ \E b \in C16_Theirs :
           /\ coalescing.tree[b] > 0
           /\ \A a \in C16_Mine : coalescing.vert[a] = coalescing.vert[b]
                  => coalescing.at[a] # coalescing.at[0 - b]
    /\ \E b \in C16_Theirs : coalescing.tree[b] < 0

\* phantoms.get(v, v): the UVVertex that stands for v after the coalescing
C22_Representative(v) == get(coalescing.tree, v)

\* the UVVertices that one UVVertex stands for
C22_Group(r) == {v \in DOMAIN coalescing.vert : C22_Representative(v) = r}

\* what C22 says of the UVVertex v
C22_Collapsed(v) ==
    /\ C22_Representative(C22_Representative(v)) = C22_Representative(v)
    /\ Cardinality(C22_Group(C22_Representative(v))) > 1 => C22_Representative(v) \in C16_Mine
    /\ C22_Representative(v) \notin C16_Mine <=>
           /\ v \in C16_Theirs
           /\ C22_Representative(v) = 0 - v
           /\ \A p \in coalescing.passed : p[2] # v

\* C22: after the turn of the coalescing loop for a mesh vertex, and so
\* when the loop has ended, every UVVertex that stands for more than one
\* UVVertex is a UVVertex of island_a at the position it had before the
\* call; a UVVertex of island_b is mapped to its freshly made phantom iff
\* none of its distance tests passed; and what a UVVertex is mapped to
\* stands for itself.
C22_GroupsCollapseOntoIslandA ==
    /\ [](coalescing.pc \in {"loop", "done"} => \A v \in DOMAIN coalescing.vert : C22_Collapsed(v))
    /\ [][coalescing.pc = "loop" => coalescing'.at = coalescing.at]_vars

\* the loop has ended with a UVVertex of island_a that stands for another
\* one of island_a and for one of island_b, and with a UVVertex of island_b
\* mapped to its phantom
C22_Witness ==
    /\ coalescing.pc = "done"
    /\ \E r \in C16_Mine : /\ C22_Group(r) \cap C16_Theirs # {}
                            /\ Cardinality(C22_Group(r) \cap C16_Mine) >= 2
    /\ \E b \in C16_Theirs : coalescing.tree[b] = 0 - b

\* C23: at the end of generate_cuts the first two UVEdges of every Edge
\* that has main faces are the UVEdges of main_faces[0] and main_faces[1],
\* in this order, whether the main faces are the ones choose_main_faces
\* chose or the ones a join has written.
C23_UVEdgesFollowMainFaces ==
    cpc = "done" =>
        \A e \in Edges :
            main_faces[e] # <<>> =>
                /\ Len(uvedges[e]) >= 2
                /\ uvedges[e][1] = main_faces[e][1]
                /\ uvedges[e][2] = main_faces[e][2]

\* generate_cuts has ended; a join has written the main faces of an edge in
\* the order opposite to the chosen one, and the UVEdges of that edge follow
\* the written order
C23_Witness ==
    /\ cpc = "done"
    /\ \E e \in Edges : /\ main_faces[e] # <<>>
                        /\ main_faces[e] # choose_main_faces(e)
                        /\ ~is_main_cut[e]
                        /\ uvedges[e][1] = main_faces[e][1]
                        /\ uvedges[e][1] = choose_main_faces(e)[2]

\* the edges joined inside island i: both main faces are faces of the island
\* and the edge is not cut between them
C25_Joined(i) ==
    {e \in Edges : /\ main_faces[e] # <<>>
                   /\ ~is_main_cut[e]
                   /\ loop_face(main_faces[e][1]) \in Range(faces[i])
                   /\ loop_face(main_faces[e][2]) \in Range(faces[i])}

C25_Outnumbered(i) ==
    Cardinality({e \in C25_Joined(i) : angle[e] <= 0})
        > Cardinality({e \in C25_Joined(i) : angle[e] > 0})

\* C25: after generate_cuts an island is marked is_inside_out exactly when it
\* has a flipped UVFace and, of the edges joined inside it, those with an
\* angle <= 0 outnumber those with an angle > 0.
C25_InsideOutByJoinedEdges ==
    cpc = "done" =>
        \A i \in island_set :
            is_inside_out[i] <=> /\ \E f \in Range(faces[i]) : flipped[f]
                                 /\ C25_Outnumbered(i)

\* generate_cuts has ended with an island that has a flipped UVFace, in which
\* the joined edges with an angle <= 0 outnumber the others
C25_Witness ==
    /\ cpc = "done"
    /\ \E i \in island_set : /\ \E f \in Range(faces[i]) : flipped[f]
                             /\ C25_Outnumbered(i)

\* the uvedges of the boundary of island i with an end at UVVertex v
C26_Touching(i, v) ==
    {l \in Range(boundary[i]) : uvedge_va[l] = v \/ uvedge_vb[l] = v}

\* vb of a uvedge whose face is not flipped, va of one whose face is
C26_Ahead(l) == IF flipped[loop_face(l)] THEN uvedge_va[l] ELSE uvedge_vb[l]

C26_Behind(l) == IF flipped[loop_face(l)] THEN uvedge_vb[l] ELSE uvedge_va[l]

\* n is another uvedge of the boundary of island i, and v is an end of it
C26_Reached(i, n, l, v) == n # l /\ n \in C26_Touching(i, v)

C26_Simple(i, v) == Cardinality(C26_Touching(i, v)) <= 2

C27_OnBoundary(b, s, l) == \E i \in s : l \in Range(b[i])

\* the step is a call of join_island that returns the absorbed island and
\* takes two UVEdges of edge e from the boundary
C27_JoinedAlong(e) ==
    /\ Pending
    /\ Attempt(edge_i).ret = "joined"
    /\ old_island' # 0 /\ old_island' \notin island_set'
    /\ \E l, m \in Range(edge_link_loops(e)) :
           /\ l # m
           /\ C27_OnBoundary(boundary, island_set, l)
           /\ C27_OnBoundary(boundary, island_set, m)
           /\ ~C27_OnBoundary(boundary', island_set', l)
           /\ ~C27_OnBoundary(boundary', island_set', m)

\* C27: generate_cuts starts with is_main_cut true on every Edge; the flag
\* only ever changes from true to false, only in a step that is a call of
\* join_island which succeeds, and only for an edge of which that join takes
\* two UVEdges from the boundary.
C27_MainCutClearedByJoinsOnly ==
    /\ [](cpc = "start" => \A e \in Edges : is_main_cut[e])
    /\ [][\A e \in Edges :
              is_main_cut'[e] # is_main_cut[e] =>
                  /\ is_main_cut[e] /\ ~is_main_cut'[e]
                  /\ C27_JoinedAlong(e)]_vars

\* the last call of join_island has returned an island, and the flag is
\* cleared on the edge of the call and on an edge that no call was made for
C27_Witness ==
    /\ cpc = "join" /\ old_island # 0
    /\ ~is_main_cut[join_calls[Len(join_calls)]]
    /\ \E e \in Edges : ~is_main_cut[e] /\ e \notin Range(join_calls)

\* every edge of the mesh has at most two faces, and the loops of an edge
\* with two faces start at opposite ends of it
C28_ConsistentlyWound ==
    \A e \in Edges :
        /\ Len(edge_link_loops(e)) <= 2
        /\ Len(edge_link_loops(e)) = 2 =>
               loop_vert(edge_link_loops(e)[1]) # loop_vert(edge_link_loops(e)[2])

\* C28: on a mesh that is wound consistently and has no edge of more than
\* two faces no call of join_island computes flipped as true, no UVFace is
\* ever flipped and no island is marked is_inside_out.
C28_ConsistentWindingNeverFlips ==
    (cpc \in {"join", "done"} /\ C28_ConsistentlyWound) =>
        /\ \A f \in Faces : ~flipped[f]
        /\ \A i \in Faces : ~is_inside_out[i]
        /\ (Pending /\ "frame" \in DOMAIN Attempt(edge_i)) => ~Attempt(edge_i).frame.flipped

\* generate_cuts has ended on a consistently wound mesh with an island made
\* by two joins or more
C28_Witness ==
    /\ cpc = "done" /\ C28_ConsistentlyWound
    /\ \E i \in island_set : Len(faces[i]) >= 3

(***************************************************************************)
(* sweep (edge.py:105-113) on its own, with either sweepline, one event a  *)
(* step, over UVEdges between the UVVertices of a small grid. The record    *)
(* keeps what was added and removed, in order, and the pairs BruteSweepline *)
(* has compared.                                                           *)
(***************************************************************************)
MaxSegments == 3

\* UVVertex.co of the UVVertices: the corners of a square, and one more
\* UVVertex at the position of the first
SweepAt == << <<0, 0>>, <<1, 0>>, <<0, 1>>, <<1, 1>>, <<0, 0>> >>

\* uv.py:39-59  the UVEdge k, from UVVertex va to vb, of a face that is
\* flipped or not
SweepSegment(k, va, vb, isFlipped) ==
    LET low == TupLess(SweepAt[va], SweepAt[vb])
    IN [ phantom |-> FALSE, loop |-> k, va |-> va, vb |-> vb,
         min |-> IF low THEN va ELSE vb, max |-> IF low THEN vb ELSE va,
         bottom |-> Min(SweepAt[va][2], SweepAt[vb][2]),
         top |-> Max(SweepAt[va][2], SweepAt[vb][2]),
         up |-> low # isFlipped ]

\* the UVEdges a segment list may be made of
SweepEnds == {e \in (1..Len(SweepAt)) \X (1..Len(SweepAt)) \X BOOLEAN : e[1] < e[2]}

\* edge.py:105  the arguments of sweep
SweepInitOf(maxSegments) ==
    /\ \E quick \in BOOLEAN, ends \in SeqsUpTo(SweepEnds, maxSegments) :
           sweeping = [ pc |-> "start", quick |-> quick,
                        segments |-> [k \in 1..Len(ends) |->
                                         SweepSegment(k, ends[k][1], ends[k][2], ends[k][3])],
                        events_add |-> <<>>, events_remove |-> <<>>,
                        children |-> IF quick THEN <<>> ELSE {},
                        added |-> <<>>, removed |-> <<>>, compared |-> {} ]
    /\ PackIdle /\ CutIdle /\ CoalescingIdle /\ ExportingIdle

\* edge.py:107-108  the two sorted lists of events
SweepStart ==
    /\ sweeping.pc = "start"
    /\ sweeping' =
           [sweeping EXCEPT
               !.pc = "sweep",
               !.events_add = SortedBy(sweeping.segments,
                                       [x \in Range(sweeping.segments) |->
                                           0 - TupKey(SweepAt[x.min])]),
               !.events_remove = SortedBy(SortedBy(sweeping.segments,
                                                   [x \in Range(sweeping.segments) |->
                                                       0 - TupKey(SweepAt[x.min])]),
                                          [x \in Range(sweeping.segments) |->
                                              0 - TupKey(SweepAt[x.max])])]
    /\ UNCHANGED <<packVars, cutVars, coalescing, exporting>>

\* the segments on the sweepline
SweepChildren == IF sweeping.quick THEN Range(sweeping.children) ELSE sweeping.children

\* edge.py:112  sweepline.add(events_add.pop()); r is what add returns or raises
SweepAdded(item, r) ==
    sweeping' =
        IF r.raised # ""
        THEN [sweeping EXCEPT !.pc = r.raised, !.events_add = SubSeq(@, 1, Len(@) - 1)]
        ELSE [sweeping EXCEPT
                 !.events_add = SubSeq(@, 1, Len(@) - 1),
                 !.children = r.value,
                 !.added = Append(@, item),
                 !.compared = IF sweeping.quick THEN @
                              ELSE @ \cup {<<item, child>> :
                                               child \in BruteComparands(sweeping.children, item)}]

SweepAdd ==
    /\ sweeping.pc = "sweep"
    /\ sweeping.events_remove # <<>>
    /\ SweepAddsNext(sweeping.events_add, sweeping.events_remove, SweepAt)
    /\ SweepAdded(sweeping.events_add[Len(sweeping.events_add)],
                  IF sweeping.quick
                  THEN QuickAdd(sweeping.children, sweeping.events_add[Len(sweeping.events_add)],
                                SweepAt)
                  ELSE BruteAdd(sweeping.children, sweeping.events_add[Len(sweeping.events_add)],
                                SweepAt))
    /\ UNCHANGED <<packVars, cutVars, coalescing, exporting>>

\* edge.py:113  sweepline.remove(events_remove.pop()); r is what remove
\* returns or raises. QuickSweepline.remove has popped the item when it
\* raises GeometryError (edge.py:85-89); list.index and set.remove raise
\* for an item that is not there (edge.py:84, 103)
SweepRemoved(item, r) ==
    sweeping' =
        IF item \notin SweepChildren
        THEN [sweeping EXCEPT !.pc = IF sweeping.quick THEN "ValueError" ELSE "KeyError",
                              !.events_remove = SubSeq(@, 1, Len(@) - 1)]
        ELSE [sweeping EXCEPT
                 !.pc = IF r.raised # "" THEN r.raised ELSE @,
                 !.events_remove = SubSeq(@, 1, Len(@) - 1),
                 !.children = IF r.raised # ""
                              THEN RemoveAt(@, CHOOSE i \in 1..Len(@) : @[i] = item)
                              ELSE r.value,
                 !.removed = Append(@, item)]

SweepRemove ==
    /\ sweeping.pc = "sweep"
    /\ sweeping.events_remove # <<>>
    /\ ~SweepAddsNext(sweeping.events_add, sweeping.events_remove, SweepAt)
    /\ SweepRemoved(sweeping.events_remove[Len(sweeping.events_remove)],
                    IF sweeping.events_remove[Len(sweeping.events_remove)] \notin SweepChildren
                    THEN Raise("absent")
                    ELSE IF sweeping.quick
                    THEN QuickRemove(sweeping.children,
                                     sweeping.events_remove[Len(sweeping.events_remove)], SweepAt)
                    ELSE BruteRemove(sweeping.children,
                                     sweeping.events_remove[Len(sweeping.events_remove)]))
    /\ UNCHANGED <<packVars, cutVars, coalescing, exporting>>

\* edge.py:109  "while events_remove" ends and sweep returns
SweepReturn ==
    /\ sweeping.pc = "sweep"
    /\ sweeping.events_remove = <<>>
    /\ sweeping' = [sweeping EXCEPT !.pc = "ok"]
    /\ UNCHANGED <<packVars, cutVars, coalescing, exporting>>

SweepInit == SweepInitOf(MaxSegments)
SweepNext == SweepStart \/ SweepAdd \/ SweepRemove \/ SweepReturn
SpecSweep == SweepInit /\ [][SweepNext]_vars

\* no segment twice in the list
C21_Once(log) == \A i, k \in 1..Len(log) : log[i] = log[k] => i = k

\* C21: sweep adds every segment to the sweepline exactly once and removes
\* it exactly once, a segment is added before it is removed (remove never
\* looks for a segment that is not on the sweepline), the segments are
\* removed in non-decreasing order of their max endpoint, and the sweepline
\* is empty when sweep returns.
C21_EventProtocol ==
    sweeping.pc \notin {"idle", "start"} =>
        /\ sweeping.pc \notin {"ValueError", "KeyError"}
        /\ C21_Once(sweeping.added) /\ C21_Once(sweeping.removed)
        /\ Range(sweeping.removed) \subseteq Range(sweeping.added)
        /\ Range(sweeping.added) \subseteq Range(sweeping.segments)
        /\ SweepChildren = Range(sweeping.added) \ Range(sweeping.removed)
        /\ \A i \in 1..(Len(sweeping.removed) - 1) :
               TupLeq(SweepAt[sweeping.removed[i].max], SweepAt[sweeping.removed[i + 1].max])
        /\ sweeping.pc = "ok" =>
               /\ Range(sweeping.added) = Range(sweeping.segments)
               /\ Range(sweeping.removed) = Range(sweeping.segments)
               /\ SweepChildren = {}

\* sweep has returned after three segments, one of them of length zero, that
\* it removed in another order than it added them
C21_Witness ==
    /\ sweeping.pc = "ok"
    /\ Len(sweeping.segments) = 3
    /\ sweeping.added # sweeping.removed
    /\ \E x \in Range(sweeping.segments) : SweepAt[x.min] = SweepAt[x.max]

\* the spans of the two segments, from min to max in the order of the
\* tuples, overlap, and they share neither their min nor their max UVVertex
C29_MustMeet(x, y) ==
    /\ x # y
    /\ TupLeq(SweepAt[x.min], SweepAt[y.max]) /\ TupLeq(SweepAt[y.min], SweepAt[x.max])
    /\ x.min # y.min /\ x.max # y.max

\* C29: in a sweep with BruteSweepline that no Intersection has ended, every
\* two segments added so far (all of them, once sweep has returned) whose
\* spans overlap and that share neither their min nor their max vertex have
\* been passed to the comparison.
C29_BruteComparesAllOverlapping ==
    (~sweeping.quick /\ sweeping.pc \in {"sweep", "ok"}) =>
        /\ \A x, y \in Range(sweeping.added) :
               C29_MustMeet(x, y) => <<x, y>> \in sweeping.compared \/ <<y, x>> \in sweeping.compared
        /\ sweeping.pc = "ok" => Range(sweeping.added) = Range(sweeping.segments)

\* a sweep with BruteSweepline has returned; it has compared a segment with
\* one that starts where it ends, and has not compared two segments that
\* share a vertex
C29_Witness ==
    /\ sweeping.pc = "ok" /\ ~sweeping.quick
    /\ \E p \in sweeping.compared : SweepAt[p[1].min] = SweepAt[p[2].max]
    /\ \E x, y \in Range(sweeping.segments) :
           x # y /\ <<x, y>> \notin sweeping.compared /\ <<y, x>> \notin sweeping.compared

(***************************************************************************)
(* The coalescing loop of join_island once more, one assignment to         *)
(* phantoms a step: the three inner loops of edge.py:179-190 with what is  *)
(* left of each in todo.                                                   *)
(***************************************************************************)
\* the state of the loop as the operators of the union-find take it
LinkState == [ tree |-> coalescing.tree, is_merged_mine |-> coalescing.is_merged_mine,
               passed |-> coalescing.passed ]

LinkAfter(st) ==
    coalescing' = [coalescing EXCEPT !.todo = Tail(@), !.tree = st.tree,
                                     !.is_merged_mine = st.is_merged_mine,
                                     !.passed = st.passed]

\* edge.py:176-179  "for vertex in shared_vertices": the pairs of the product
LinkVertex ==
    /\ coalescing.pc = "loop"
    /\ coalescing' = [pc |-> "ab",
                      todo |-> product(coalescing.groups[1].uvs_a, coalescing.groups[1].uvs_b)]
                         @@ coalescing
    /\ UNCHANGED <<packVars, cutVars, sweeping, exporting>>

\* edge.py:179-181  one pair of the product
LinkAB ==
    /\ coalescing.pc = "ab" /\ coalescing.todo # <<>>
    /\ LinkAfter(merge_ab(<<coalescing.todo[1]>>, LinkState, coalescing.at, coalescing.limit))
    /\ UNCHANGED <<packVars, cutVars, sweeping, exporting>>

\* edge.py:182  the pairs of uvs_a
LinkCombinations ==
    /\ coalescing.pc = "ab" /\ coalescing.todo = <<>>
    /\ coalescing' = [coalescing EXCEPT !.pc = "aa",
                                        !.todo = combinations(coalescing.groups[1].uvs_a)]
    /\ UNCHANGED <<packVars, cutVars, sweeping, exporting>>

\* edge.py:182-187  one pair of uvs_a
LinkAA ==
    /\ coalescing.pc = "aa" /\ coalescing.todo # <<>>
    /\ LinkAfter(merge_aa(<<coalescing.todo[1]>>, LinkState, coalescing.at, coalescing.limit))
    /\ UNCHANGED <<packVars, cutVars, sweeping, exporting>>

\* edge.py:188  "for source, target in phantoms.items()"
LinkItems ==
    /\ coalescing.pc = "aa" /\ coalescing.todo = <<>>
    /\ coalescing' = [coalescing EXCEPT !.pc = "items",
                                        !.todo = SetToSeq(DOMAIN coalescing.tree)]
    /\ UNCHANGED <<packVars, cutVars, sweeping, exporting>>

\* edge.py:189-190  one source is pointed at its root
LinkSource ==
    /\ coalescing.pc = "items" /\ coalescing.todo # <<>>
    /\ coalescing' = [coalescing EXCEPT
                          !.todo = Tail(@),
                          !.tree = normalise(<<coalescing.todo[1]>>, coalescing.tree)]
    /\ UNCHANGED <<packVars, cutVars, sweeping, exporting>>

\* edge.py:176  the next mesh vertex, or the end of the loop
LinkNextVertex ==
    /\ coalescing.pc = "items" /\ coalescing.todo = <<>>
    /\ coalescing' = [coalescing EXCEPT !.groups = Tail(@),
                                        !.pc = IF Len(coalescing.groups) = 1 THEN "done" ELSE "loop"]
    /\ UNCHANGED <<packVars, cutVars, sweeping, exporting>>

LinkNext ==
    LinkVertex \/ LinkAB \/ LinkCombinations \/ LinkAA \/ LinkItems \/ LinkSource \/ LinkNextVertex

SpecLinks == CoalesceInit /\ [][LinkNext]_vars

RECURSIVE C30_Walk(_, _)
\* where n steps from value to parent lead to, at most
C30_Walk(value, n) ==
    IF n = 0 \/ value \notin DOMAIN coalescing.tree THEN value
    ELSE C30_Walk(coalescing.tree[value], n - 1)

\* the root of a value, if the walk from it ends
C30_Root(value) == C30_Walk(value, Cardinality(DOMAIN coalescing.tree))

\* no walk from a key comes back to a key it has passed
C30_Acyclic == \A value \in DOMAIN coalescing.tree : C30_Root(value) \notin DOMAIN coalescing.tree

\* root_find returns the root and leaves every key with the root it had
C30_CompressionKeepsRoots(value, found) ==
    /\ found.value = C30_Root(value)
    /\ DOMAIN found.tree = DOMAIN coalescing.tree
    /\ \A k \in DOMAIN coalescing.tree : root_of(k, found.tree) = C30_Root(k)

\* C30: after every assignment to phantoms of the coalescing loop (the
\* links phantoms[b] = root_find(a), phantoms[a2] = a1 for two roots, and
\* the pass that points every source at its root) phantoms has no cycle,
\* so that root_find ends; and root_find, called for any value, returns
\* its root and changes parents but the root of no key.
C30_ForestStaysAcyclic ==
    coalescing.pc # "idle" =>
        /\ C30_Acyclic
        /\ \A value \in DOMAIN coalescing.at :
               C30_CompressionKeepsRoots(value, root_find(value, coalescing.tree))

\* in the middle of the loop a key has a parent that is a key itself, so
\* that root_find has a path to compress
C30_Witness ==
    /\ coalescing.pc \in {"aa", "items"}
    /\ \E value \in DOMAIN coalescing.tree :
           /\ coalescing.tree[value] \in DOMAIN coalescing.tree
           /\ root_find(value, coalescing.tree).tree # coalescing.tree

(***************************************************************************)
(* The fatal errors of the core: check_correct (mesh.py:44-73), the        *)
(* bookkeeping test of join_island (edge.py:205-206) and the pre-check of  *)
(* fit_islands (mesh.py:328-332), in the order in which the unfolder        *)
(* reaches them (unfold.py:21, 29, 84). Lengths and areas are counted in    *)
(* units of epsilon. A PmtError is the tuple of its arguments.              *)
(***************************************************************************)
MaxElems == 2

\* mesh.py:44  epsilon, in its own units
Epsilon == 1

\* mesh.py:46-53  deviation is the largest distance of a vertex from the
\* plane of the face, and the threshold is 0.01 * diameter
is_twisted(face) ==
    IF face.verts <= 3 THEN FALSE
    ELSE 100 * face.deviation > face.diameter

\* mesh.py:55
null_edges(data) ==
    {e \in DOMAIN data.edges : data.edges[e].length < Epsilon /\ data.edges[e].link_faces}

\* mesh.py:56
null_faces(data) == {f \in DOMAIN data.faces : data.faces[f].area < Epsilon}

\* mesh.py:57
twisted_faces(data) == {f \in DOMAIN data.faces : is_twisted(data.faces[f])}

\* mesh.py:58
inverted_scale(data) == data.determinant <= 0

\* mesh.py:65-66  the cures, joined by " and "
cure(data) ==
    (IF null_edges(data) # {} \/ null_faces(data) # {} THEN <<"Remove Doubles">> ELSE <<>>)
    \o (IF twisted_faces(data) # {} THEN <<"Triangulate">> ELSE <<>>)

\* the elements of an error that selects the zero-area faces only
offenders_untwisted(data) ==
    [verts |-> {}, edges |-> null_edges(data), faces |-> null_faces(data)]

\* mesh.py:73  the elements that the error selects
offenders(data) ==
    [verts |-> {}, edges |-> null_edges(data),
     faces |-> null_faces(data) \cup twisted_faces(data)]

\* mesh.py:55-73  no arguments for True, or the arguments of the PmtError;
\* a count of 0 stands for a line that the message leaves out
check_correct(data) ==
    IF ~(null_edges(data) # {} \/ null_faces(data) # {} \/ twisted_faces(data) # {}
         \/ inverted_scale(data))
    THEN <<>>
    ELSE IF inverted_scale(data)
    THEN << [text |-> "The object is flipped inside-out."] >>
    ELSE << [text |-> "The model contains:",
             zero_length |-> Cardinality(null_edges(data)),
             zero_area |-> Cardinality(null_faces(data)),
             twisted |-> Cardinality(twisted_faces(data)),
             cure |-> cure(data)],
            offenders(data), "data" >>

\* mesh.py:328  any island larger than the cage
any_too_big(bounding_boxes, cage) ==
    \E i \in 1..Len(bounding_boxes) :
        bounding_boxes[i][1] > cage[1] \/ bounding_boxes[i][2] > cage[2]

ExportEdges == [length : 0..1, link_faces : BOOLEAN]

ExportFaces == [area : 0..1, verts : 3..4, deviation : 1..2, diameter : {100}]

ExportIslands == { << <<1, 1>> >>, << <<1, 1>>, <<2, 1>> >>, << <<1, 2>> >> }

ExportInitOf(maxElems) ==
    /\ \E es \in [1..maxElems -> ExportEdges], fs \in [1..maxElems -> ExportFaces],
          determinant \in -1..1, boxes \in ExportIslands :
          exporting = [ pc |-> "check_correct",
                        data |-> [edges |-> es, faces |-> fs, determinant |-> determinant],
                        bounding_boxes |-> boxes, cage_size |-> <<1, 1>>,
                        at |-> "none", args |-> <<>> ]
    /\ PackIdle /\ CutIdle /\ CoalescingIdle /\ SweepingIdle

\* unfold.py:21, mesh.py:59-60  check_correct returns True
CheckCorrect ==
    /\ exporting.pc = "check_correct"
    /\ check_correct(exporting.data) = <<>>
    /\ exporting' = [exporting EXCEPT !.pc = "generate_cuts"]
    /\ UNCHANGED <<packVars, cutVars, coalescing, sweeping>>

\* mesh.py:61-73  check_correct raises
CheckCorrectRaise ==
    /\ exporting.pc = "check_correct"
    /\ check_correct(exporting.data) # <<>>
    /\ exporting' = [exporting EXCEPT !.pc = "PmtError", !.at = "check_correct",
                                      !.args = check_correct(exporting.data)]
    /\ UNCHANGED <<packVars, cutVars, coalescing, sweeping>>

\* unfold.py:29  generate_cuts ends, no join having raised
GenerateCuts ==
    /\ exporting.pc = "generate_cuts"
    /\ exporting' = [exporting EXCEPT !.pc = "fit_islands"]
    /\ UNCHANGED <<packVars, cutVars, coalescing, sweeping>>

\* edge.py:205-206  a join finds uvedge_b outside merged_uvedges
JoinIslandRaise ==
    /\ exporting.pc = "generate_cuts"
    /\ exporting' = [exporting EXCEPT !.pc = "PmtError", !.at = "join_island",
                                      !.args = << [text |-> "Export failed. Please report this error"] >>]
    /\ UNCHANGED <<packVars, cutVars, coalescing, sweeping>>

\* unfold.py:84, mesh.py:328  the pre-check of fit_islands passes
FitIslands ==
    /\ exporting.pc = "fit_islands"
    /\ ~any_too_big(exporting.bounding_boxes, exporting.cage_size)
    /\ exporting' = [exporting EXCEPT !.pc = "done"]
    /\ UNCHANGED <<packVars, cutVars, coalescing, sweeping>>

\* mesh.py:328-332
FitIslandsRaise ==
    /\ exporting.pc = "fit_islands"
    /\ any_too_big(exporting.bounding_boxes, exporting.cage_size)
    /\ exporting' = [exporting EXCEPT !.pc = "PmtError", !.at = "fit_islands",
                                      !.args = << [text |-> "An island is too big to fit onto page"] >>]
    /\ UNCHANGED <<packVars, cutVars, coalescing, sweeping>>

ExportInit == ExportInitOf(MaxElems)

ExportNext ==
    \/ CheckCorrect
    \/ CheckCorrectRaise
    \/ GenerateCuts
    \/ JoinIslandRaise
    \/ FitIslands
    \/ FitIslandsRaise

SpecExport == ExportInit /\ [][ExportNext]_vars

C24_ZeroLength == {e \in 1..MaxElems : exporting.data.edges[e].length = 0}

C24_ZeroArea == {f \in 1..MaxElems : exporting.data.faces[f].area = 0}

C24_Twisted ==
    {f \in 1..MaxElems : /\ exporting.data.faces[f].verts = 4
                         /\ exporting.data.faces[f].deviation = 2}

C24_Inverted == exporting.data.determinant < 1

C24_CarriesSets ==
    /\ Len(exporting.args) >= 2
    /\ DOMAIN exporting.args[2] = {"verts", "edges", "faces"}

\* C24 as the spec has it: every fatal error carries the sets of offending
\* vertices, edges and faces beside its message, and with several defects at
\* once the elements of all of them.
C24_EveryErrorCarriesSets ==
    exporting.pc = "PmtError" =>
        /\ C24_CarriesSets
        /\ exporting.at = "check_correct" =>
              /\ C24_ZeroLength \subseteq exporting.args[2].edges
              /\ C24_ZeroArea \cup C24_Twisted \subseteq exporting.args[2].faces

\* C24: the error of check_correct for zero-length edges, zero-area faces and
\* twisted faces carries, beside its message, an empty set of vertices, the
\* zero-length edges that have a face, and the zero-area and the twisted
\* faces together, for all defects of these kinds at once; the error for an
\* inverted scale is raised alone whatever else is wrong, and it, the error
\* for an island too big and the error of the merge bookkeeping carry the
\* message only.
C24_GeometryErrorsCarrySets ==
    exporting.pc = "PmtError" =>
        IF exporting.at = "check_correct" /\ ~C24_Inverted
        THEN /\ C24_CarriesSets
             /\ exporting.args[2].verts = {}
             /\ exporting.args[2].edges =
                    {e \in C24_ZeroLength : exporting.data.edges[e].link_faces}
             /\ exporting.args[2].faces = C24_ZeroArea \cup C24_Twisted
        ELSE Len(exporting.args) = 1

\* check_correct has raised for a zero-length edge, a zero-area face and a
\* twisted face that is not the zero-area one, and the error carries them
C24_Witness ==
    /\ exporting.pc = "PmtError" /\ exporting.at = "check_correct"
    /\ C24_CarriesSets
    /\ exporting.args[2].edges # {}
    /\ C24_ZeroArea # {} /\ C24_Twisted \ C24_ZeroArea # {}
    /\ C24_Twisted \subseteq exporting.args[2].faces

====
